---- MODULE Spec2Model ----
(***************************************************************************)
(* A model of the crash-safe upload engine of Youtube-Uploader:            *)
(*   upload_manager.py  (UploadManager: upload_video, batch upload, quota) *)
(*   state_manager.py   (StateManager: the JSON state files)               *)
(*   file_handler.py    (FileHandler: hashing, verified copy, safe move)   *)
(*   gui.py             (start-up order, the entry points that upload)     *)
(*                                                                         *)
(* Spec          upload_video with process crashes, restarts and start-up   *)
(*               recovery; files are submitted one at a time.              *)
(* SpecBatch     one run of the process: the entry points that upload      *)
(*               (single file, forced check, watch worker, folder upload), *)
(*               the batch loop, the quota cooldown and the clock.         *)
(* SpecCooldown  is_in_cooldown / get_cooldown_end_time on datetimes.      *)
(* SpecAtomic    _atomic_write_json step by step, with failures and        *)
(*               crashes at every step.                                    *)
(* SpecMove      safe_move: copy, verify, delete with retries.             *)
(* SpecMoveFair  the same, the delete loop making progress.                 *)
(* SpecRetry     one run of the process with the consecutive failures of   *)
(*               a path counted.                                           *)
(* SpecStop      one run of the process with the batch loops and the Stop  *)
(*               and Start buttons; SpecStopFair: the batch thread runs.   *)
(* SpecWorker    _watch_folder_worker with its cooldown wait and the       *)
(*               clock; SpecWorkerFair: the thread runs and time passes.   *)
(* SpecFault     one run of the process in which the write of              *)
(*               upload_state.json can fail.                               *)
(* SpecLoad      _load_json_with_validation on upload_state.json.          *)
(* SpecSort      sort_playlist_alphabetically with its saved sort state,   *)
(*               quota interruptions, errors and crashes.                  *)
(* SpecSortTwo   the same on two playlists sharing the saved sort state.   *)
(* SpecEstimate  estimate_sort_quota_cost on item counts.                  *)
(* SpecGui       the threads the window starts (watch worker, forced       *)
(*               check, single file) running upload_video side by side.    *)
(* SpecMutators  two threads in StateManager.set_upload_state.             *)
(*                                                                         *)
(* Persistence writes succeed in Spec, SpecBatch and SpecRetry.            *)
(***************************************************************************)
EXTENDS Integers, Sequences, FiniteSets, TLC

\* ------------------------------------------------------------------------
\* Bounds of the model
\* ------------------------------------------------------------------------
MaxUploads == 2      \* remote upload calls the service accepts in one run of the model
MaxCrashes == 2      \* process crashes
MaxTicks   == 1      \* clock advances

\* ------------------------------------------------------------------------
\* Program constants (config.py)
\* ------------------------------------------------------------------------
QUOTA_COOLDOWN_BUFFER_MINUTES == 5
QUOTA_COOLDOWN_HOURS          == 24
MAX_FILE_SIZE_GB              == 256     \* MAX_FILE_SIZE_BYTES, in GiB
INITIAL_RETRY_DELAY_SECONDS   == 60
MAX_RETRY_DELAY_SECONDS       == 3600
MAX_UPLOAD_RETRY_ATTEMPTS     == 3
MAX_FILE_OPERATION_RETRIES    == 5
INITIAL_FILE_OPERATION_DELAY  == 5       \* 0.5 s, in tenths of a second
MAX_FILE_OPERATION_DELAY      == 100     \* 10 s, in tenths of a second
SLEEP_INCREMENT_SECONDS       == 5
WATCH_FOLDER_POLL_INTERVAL    == 30
QUOTA_COST_PLAYLIST_LIST      == 1
QUOTA_COST_PLAYLIST_UPDATE    == 50

\* ------------------------------------------------------------------------
\* Values
\* ------------------------------------------------------------------------
None == "none"                                  \* Python's None, an absent file
Paths == {"a.mp4", "b.mp4"}                     \* the video files of the watch folder
Contents == {"c1", "c2", "big"}                 \* byte contents a file can hold

\* A size that is under the limit whatever the file holds.
Size_small(c) == 1

\* os.path.getsize, in GiB: "big" exceeds YouTube's limit.
Size(c) == IF c = "big" THEN 257 ELSE 1

\* FileHandler.compute_file_hash on a readable file: the MD5 hex digest of the
\* content.  Distinct contents of the model have distinct digests.
\* "junk" is what a damaged or half-written copy holds.
Digest(c) ==
  CASE c = "c1" -> "md5_1" [] c = "c2" -> "md5_2" [] c = "big" -> "md5_3"
    [] c = "junk" -> "md5_4"

\* get_video_files sorts the names alphabetically.
PathOrder == <<"a.mp4", "b.mp4">>

\* ------------------------------------------------------------------------
\* Python dicts as functions
\* ------------------------------------------------------------------------
EmptyDict == [k \in {} |-> None]
Put(d, k, v) == [x \in (DOMAIN d) \cup {k} |-> IF x = k THEN v ELSE d[x]]   \* d[k] = v

\* ------------------------------------------------------------------------
\* State
\* ------------------------------------------------------------------------
VARIABLES
  \* the file system
  files,          \* watch folder: path -> content, or None when there is no such file
  uploadedDir,    \* contents held by the files of the 'Uploaded' subfolder
  diskHistory,    \* upload_history.json : digest -> [filename, video_id]
  diskStates,     \* upload_state.json   : path -> state_info
  diskQuota,      \* quota_state.json    : {} or {last_quota_hit}
  \* StateManager's in-memory dicts
  memHistory, memStates, memQuota,
  \* the process and the upload_video call in progress
  pc,             \* where the process is
  caller,         \* the entry point that runs: single, force, worker, folder
  cur,            \* upload_video's filepath
  fileHash,       \* upload_video's file_hash
  videoId,        \* upload_video's video_id (0: none yet)
  move_success,   \* upload_video's move_success (FALSE before step 10)
  result,         \* what upload_video returned or raised
  \* the batch loop (upload_files_from_folder, _perform_folder_check)
  batch,          \* video_files
  idx,            \* files of the batch already handled
  results,        \* upload_files_from_folder's results dict
  \* start-up recovery (reset_incomplete_uploads_to_pending)
  todo,           \* records of list(self.upload_states.items()) not yet visited
  recCount,       \* count
  \* the clock
  now, ticks,
  \* the remote service
  uploads,        \* content -> number of uploads of it the service accepted
  \* history variables, read by the properties only
  crashes,        \* crashes so far
  recPre,         \* upload_states when the running recovery started
  recDone,        \* recovery has completed in this run of the process
  succeeded,      \* contents for which upload_video returned full success
  orphaned,       \* the first content whose only accepted upload was lost in a crash
                  \* before the history record was written (None: no such)
  streakPath,     \* the path whose last remote upload failed with a non-quota error
  streak,         \* consecutive calls on streakPath that failed so (at most
                  \* MAX_UPLOAD_RETRY_ATTEMPTS are counted)
  partialDone,    \* contents uploaded by a call that then found the playlist gone
  callContent,    \* content of cur when the call started
  callDup,        \* callContent was in succeeded when the call started
  callPre,        \* the persisted and in-memory state when the call started
  callRemote,     \* remote upload calls issued by the call
  callInCooldown, \* a remote call of the call was issued during the cooldown
  called,         \* paths upload_video was called on since the batch started
  remoteIn,       \* paths a remote upload call was issued for since the batch started
  quotaAt,        \* index in the batch of the upload that raised QuotaExceededError
  outcomes,       \* how the upload_video calls of the batch ended, in order
  \* SpecCooldown: the cooldown functions on datetimes
  cdQuota,        \* quota_state: {} or {last_quota_hit: ISO string}
  cdHit,          \* the datetime record_quota_hit read from the clock: <<>> or <<dt>>
  cdNow,          \* datetime.now() of the last query: <<>> or <<dt>>
  cdIn,           \* what is_in_cooldown() returned: <<>> or <<bool>>
  cdEnd,          \* what get_cooldown_end_time() returned: <<>> (None) or <<dt>>
  \* SpecAtomic: one state file and _atomic_write_json
  awFs,           \* the directory: the names of its files -> their content
  awPc,           \* where the call is
  awData,         \* the data argument
  awOld,          \* the target when the call started: <<>> (no file) or <<content>>
  awTmp,          \* tmp_file.name
  awTempPath,     \* the local temp_path is bound
  awOutcome,      \* how the call ended
  awFailedAt,     \* the step that raised, or at which the process died
  \* SpecMove: FileHandler.safe_move
  mvSrc,          \* content of source_path, or None
  mvDir,          \* the destination folder: the names of its files -> their content
  mvDest,         \* destination_path
  mvCached,       \* cached_source_hash: <<>> or <<digest>>
  mvPc,           \* where the call is
  mvAttempt,      \* attempt of the delete loop
  mvSlept,        \* time slept in the delete loop, in tenths of a second
  mvResult,       \* success of the returned (success, message): <<>> or <<bool>>
  mvRemoved,      \* content the source held when os.remove deleted it
  \* SpecLoad: _load_json_with_validation
  ldFile,         \* the state file: <<>> (no file) or <<document>>
  ldBackups,      \* the '.corrupt.<unixtime>' siblings: unixtime -> document
  ldOld,          \* ldBackups when the call started
  ldPc,           \* where the call is
  ldTime,         \* int(time.time()) during the call
  ldCopyFailed,   \* shutil.copy2 raised
  ldResult,       \* what the call returned: <<>> (not yet) or <<data>>
  \* SpecSort: sort_playlist_alphabetically
  srRemote,       \* the playlist at the service: its items in order
  srOther,        \* another playlist at the service
  srPlaylist,     \* playlist_id, the argument of the running call
  srMem,          \* StateManager.playlist_sort_state
  srDisk,         \* playlist_sort_state.json
  srQuotaHits,    \* calls of record_quota_exceeded
  srPc,           \* where the call is
  srSorted,       \* sorted_items
  srPos,          \* new_position
  srUpdated,      \* updated_count
  srFailed,       \* failed_count
  srQuota,        \* quota_exceeded
  srLast,         \* last_successful_position
  srResult,       \* the returned (success, message, items_sorted)
  srRuns,         \* calls of sort_playlist_alphabetically so far
  \* history variables of SpecSort
  srFirst,        \* the items fetched when the reorder began
  srLog,          \* the position commits the service accepted since: <<item, position>>
  srHadError,     \* a commit failed with a non-quota error since
  srCrashed,      \* the process died since
  srResumed,      \* the running call resumed from a saved state
  srTried,        \* updates the running call has sent
  srErrors,       \* of these, the ones that failed with a non-quota error
  \* SpecGui: the threads of the window
  guStart,        \* start_button is enabled
  guForce,        \* force_check_button is enabled
  guSingle,       \* upload_file_button is enabled
  guThreads,      \* thread -> [pc, list, idx, path, content, video_id]
  guFiles,        \* the watch folder
  guHistory,      \* upload_history
  guRecords,      \* upload_states: path -> state
  guAccepted,     \* content -> number of uploads of it the service accepted
  \* SpecMutators: two threads in set_upload_state
  smMem,          \* self.upload_states
  smDisk,         \* upload_state.json
  smThreads,      \* thread -> [pc, path, state, seen, tmp]
  \* SpecStop: the stop signal of the window
  should_stop,    \* self.should_stop
  stopSnap,       \* <<>>, or what the folder and the records were when it was set
  \* SpecWorker: _watch_folder_worker
  wkPc,           \* where the worker thread is
  wkEnd,          \* end_time of its _sleep_interruptible
  wkHits,         \* quota signals so far
  \* SpecEstimate: estimate_sort_quota_cost
  esVideos,       \* num_videos
  esCost          \* what the call returned: <<>> (not yet) or <<units>>

persistVars == <<diskHistory, diskStates, diskQuota, memHistory, memStates, memQuota>>
fsVars      == <<files, uploadedDir>>
callVars    == <<cur, fileHash, videoId, move_success, callContent, callDup, callPre,
                 callRemote, callInCooldown>>
batchVars   == <<batch, idx, results, called, remoteIn, quotaAt, outcomes>>
recVars     == <<todo, recCount, recPre>>
clockVars   == <<now, ticks>>
streakVars  == <<streakPath, streak>>
histVars    == <<crashes, succeeded, orphaned, uploads, streakVars, partialDone>>

engineVars == <<persistVars, fsVars, callVars, batchVars, recVars, clockVars, histVars,
                pc, caller, result, recDone>>

cdVars == <<cdQuota, cdHit, cdNow, cdIn, cdEnd>>
awVars == <<awFs, awPc, awData, awOld, awTmp, awTempPath, awOutcome, awFailedAt>>
mvVars == <<mvSrc, mvDir, mvDest, mvCached, mvPc, mvAttempt, mvSlept, mvResult, mvRemoved>>
ldVars == <<ldFile, ldBackups, ldOld, ldPc, ldTime, ldCopyFailed, ldResult>>
srVars == <<srRemote, srOther, srPlaylist, srMem, srDisk, srQuotaHits, srPc, srSorted, srPos, srUpdated,
            srFailed, srQuota, srLast, srResult, srRuns, srFirst, srLog, srHadError,
            srCrashed, srResumed, srTried, srErrors>>
guVars == <<guStart, guForce, guSingle, guThreads, guFiles, guHistory, guRecords,
            guAccepted>>
smVars == <<smMem, smDisk, smThreads>>
wkVars == <<wkPc, wkEnd, wkHits>>
esVars == <<esVideos, esCost>>
stVars == <<should_stop, stopSnap, wkVars, esVars>>
auxVars == <<cdVars, awVars, mvVars, ldVars, srVars, guVars, smVars, stVars>>

\* What the actions of a specification of a single function leave alone.
exceptCd == <<engineVars, awVars, mvVars, ldVars, srVars, guVars, smVars, stVars>>
exceptAw == <<engineVars, cdVars, mvVars, ldVars, srVars, guVars, smVars, stVars>>
exceptMv == <<engineVars, cdVars, awVars, ldVars, srVars, guVars, smVars, stVars>>
exceptLd == <<engineVars, cdVars, awVars, mvVars, srVars, guVars, smVars, stVars>>
exceptSr == <<engineVars, cdVars, awVars, mvVars, ldVars, guVars, smVars, stVars>>
exceptGu == <<engineVars, cdVars, awVars, mvVars, ldVars, srVars, smVars, stVars>>
exceptSm == <<engineVars, cdVars, awVars, mvVars, ldVars, srVars, guVars, stVars>>

vars == <<engineVars, auxVars>>

Persisted == <<diskHistory, diskStates, diskQuota, memHistory, memStates, memQuota>>
NoSnap == <<>>

\* ------------------------------------------------------------------------
\* StateManager
\* ------------------------------------------------------------------------

\* set_upload_state builds a fresh state_info; retry_count and next_retry_time
\* are optional arguments (<<>>: not given, <<v>>: given).  The 'timestamp'
\* field is written and never read by the program; it is left out.
StateInfo(state, retry_count, next_retry_time) ==
  ("state" :> state)
  @@ (IF retry_count # <<>> THEN ("retry_count" :> retry_count[1]) ELSE EmptyDict)
  @@ (IF next_retry_time # <<>> THEN ("next_retry_time" :> next_retry_time[1]) ELSE EmptyDict)

\* self.upload_states[filepath] = state_info
set_upload_state(states, filepath, state, retry_count, next_retry_time) ==
  Put(states, filepath, StateInfo(state, retry_count, next_retry_time))

\* A write that reaches the memory only.
WriteStates_memory_only(new) == memStates' = new /\ UNCHANGED diskStates

\* _atomic_write_json(UPLOAD_STATE_FILE, self.upload_states), the write succeeding
WriteStates(new) == memStates' = new /\ diskStates' = new
WriteHistory(new) == memHistory' = new /\ diskHistory' = new
WriteQuota(new) == memQuota' = new /\ diskQuota' = new

\* A lookup that never finds the digest.
is_file_uploaded_never(history, file_hash) == FALSE

is_file_uploaded(history, file_hash) == file_hash \in DOMAIN history

\* self.upload_history[file_hash] = {filename, upload_date, video_id}
\* (upload_date is written and never read; it is left out)
\* A history that forgets the upload.
add_upload_to_history_lost(history, file_hash, filename, video_id) == history

add_upload_to_history(history, file_hash, filename, video_id) ==
  Put(history, file_hash, [filename |-> filename, video_id |-> video_id])

get_retry_count(states, filepath) ==
  IF filepath \in DOMAIN states /\ "retry_count" \in DOMAIN states[filepath]
  THEN states[filepath].retry_count ELSE 0

\* is_ready_for_retry (lines 641-681), t being datetime.now()
is_ready_for_retry(states, filepath, t) ==
  IF filepath \notin DOMAIN states THEN FALSE
  ELSE IF states[filepath].state # "failed" THEN FALSE
  ELSE IF get_retry_count(states, filepath) >= MAX_UPLOAD_RETRY_ATTEMPTS THEN FALSE
  ELSE IF /\ "next_retry_time" \in DOMAIN states[filepath]
          /\ t < states[filepath].next_retry_time
       THEN FALSE
       ELSE TRUE

\* get_failed_uploads_for_retry (lines 683-710)
get_failed_uploads_for_retry(states, fs, t) ==
  { p \in DOMAIN states : is_ready_for_retry(states, p, t) /\ fs[p] # None }

\* A recorder that leaves the marker alone.
record_quota_hit_never(quota, t) == quota

\* record_quota_hit: self.quota_state['last_quota_hit'] = now
record_quota_hit(quota, t) == Put(quota, "last_quota_hit", t)

\* A test that does not look at the file system.
NeedsReset_any_path(state_info, exists) == state_info.state = "uploading"

\* The test of reset_incomplete_uploads_to_pending's loop body.
NeedsReset(state_info, exists) == state_info.state = "uploading" /\ exists


\* ------------------------------------------------------------------------
\* UploadManager: the quota cooldown, on the clock of Spec (seconds).
\* SpecCooldown checks the datetime arithmetic behind it.
\* ------------------------------------------------------------------------
CooldownSeconds == (QUOTA_COOLDOWN_HOURS * 60 + QUOTA_COOLDOWN_BUFFER_MINUTES) * 60

\* get_cooldown_end_time, when a marker is recorded
cooldown_end(quota) == quota.last_quota_hit + CooldownSeconds

is_in_cooldown(quota, t) ==
  IF "last_quota_hit" \notin DOMAIN quota THEN FALSE ELSE t < cooldown_end(quota)

\* ------------------------------------------------------------------------
\* Init: the first start of the application, no state file on disk yet.
\* StateManager.__init__ has loaded four empty dicts and the window's
\* __init__ is about to run _check_incomplete_uploads.
\* ------------------------------------------------------------------------
\* What the watch folder holds at first: twice the same content, two contents,
\* a file over the size limit.
InitFiles ==
  { [p \in Paths |-> IF p = "a.mp4" THEN a ELSE b] : a \in {"c1", "big"}, b \in {"c1", "c2"} }

NoResults == [success_count |-> 0, fail_count |-> 0, skip_count |-> 0,
              total_files |-> 0, quota_exceeded |-> FALSE]

NoCall ==
  /\ cur = None /\ fileHash = None /\ videoId = 0 /\ callContent = None
  /\ move_success = FALSE
  /\ callDup = FALSE /\ callPre = NoSnap /\ callRemote = 0 /\ callInCooldown = FALSE

NoBatch ==
  /\ batch = <<>> /\ idx = 0 /\ results = NoResults /\ called = <<>>
  /\ remoteIn = {} /\ quotaAt = 0 /\ outcomes = <<>>

\* The parts of the state a specification does not use stay as they are here.
CdIdle == cdQuota = EmptyDict /\ cdHit = <<>> /\ cdNow = <<>> /\ cdIn = <<>> /\ cdEnd = <<>>
AwIdle ==
  /\ awFs = EmptyDict /\ awPc = None /\ awData = 0 /\ awOld = <<>>
  /\ awTmp = None /\ awTempPath = FALSE /\ awOutcome = None /\ awFailedAt = None
LdIdle ==
  /\ ldFile = <<>> /\ ldBackups = EmptyDict /\ ldOld = EmptyDict /\ ldPc = None
  /\ ldTime = 0 /\ ldCopyFailed = FALSE /\ ldResult = <<>>
SrLocalsIdle ==
  /\ srSorted = <<>> /\ srPos = 0 /\ srUpdated = 0 /\ srFailed = 0 /\ srQuota = FALSE
  /\ srLast = -1 /\ srResumed = FALSE /\ srPlaylist = None
  /\ srTried = 0 /\ srErrors = 0
SrIdle ==
  /\ srRemote = <<>> /\ srOther = <<>> /\ srMem = EmptyDict /\ srDisk = EmptyDict /\ srQuotaHits = 0
  /\ srPc = None /\ SrLocalsIdle /\ srResult = <<>> /\ srRuns = 0
  /\ srFirst = <<>> /\ srLog = <<>> /\ srHadError = FALSE /\ srCrashed = FALSE
GuIdle ==
  /\ guStart = FALSE /\ guForce = FALSE /\ guSingle = FALSE /\ guThreads = EmptyDict
  /\ guFiles = EmptyDict /\ guHistory = EmptyDict /\ guRecords = EmptyDict
  /\ guAccepted = EmptyDict
SmIdle == smMem = EmptyDict /\ smDisk = EmptyDict /\ smThreads = EmptyDict
WkIdle == wkEnd = 0 /\ wkHits = 0
EsIdle == esVideos = 0 /\ esCost = <<>>
StIdle == should_stop = FALSE /\ stopSnap = <<>> /\ wkPc = None /\ WkIdle /\ EsIdle
MvIdle ==
  /\ mvSrc = None /\ mvDir = EmptyDict /\ mvDest = None /\ mvCached = <<>>
  /\ mvPc = None /\ mvAttempt = 0 /\ mvSlept = 0 /\ mvResult = <<>> /\ mvRemoved = None

EngineInit ==
  /\ files \in InitFiles
  /\ uploadedDir = {}
  /\ diskHistory = EmptyDict /\ diskStates = EmptyDict /\ diskQuota = EmptyDict
  /\ memHistory = EmptyDict /\ memStates = EmptyDict /\ memQuota = EmptyDict
  /\ pc = "recover" /\ caller = None /\ result = None
  /\ NoCall /\ NoBatch
  /\ todo = {} /\ recCount = 0 /\ recPre = EmptyDict
  /\ now = 0 /\ ticks = 0
  /\ uploads = [c \in Contents |-> 0]
  /\ crashes = 0 /\ recDone = FALSE
  /\ succeeded = {} /\ orphaned = None
  /\ streakPath = None /\ streak = 0 /\ partialDone = {}

\* The engine at rest, for the specifications of single functions.
EngineIdle == EngineInit /\ files = [p \in Paths |-> "c1"]

Init == EngineInit /\ StIdle /\ CdIdle /\ AwIdle /\ MvIdle /\ LdIdle /\ SrIdle /\ GuIdle /\ SmIdle

ResetCall ==
  /\ cur' = None /\ fileHash' = None /\ videoId' = 0 /\ callContent' = None
  /\ move_success' = FALSE
  /\ callDup' = FALSE /\ callPre' = NoSnap /\ callRemote' = 0 /\ callInCooldown' = FALSE

ResetBatch ==
  /\ batch' = <<>> /\ idx' = 0 /\ results' = NoResults /\ called' = <<>>
  /\ remoteIn' = {} /\ quotaAt' = 0 /\ outcomes' = <<>>

\* ------------------------------------------------------------------------
\* Start-up recovery: gui.py __init__ -> _check_incomplete_uploads ->
\* StateManager.reset_incomplete_uploads_to_pending
\* ------------------------------------------------------------------------

\* One iteration of the loop over list(self.upload_states.items()).
RecoverStep(p) ==
  /\ pc = "recover" /\ p \in todo
  /\ todo' = todo \ {p}
  /\ IF NeedsReset(memStates[p], files[p] # None)
     THEN /\ WriteStates(set_upload_state(memStates, p, "pending", <<>>, <<>>))
          /\ recCount' = recCount + 1
     ELSE /\ UNCHANGED <<memStates, diskStates, recCount>>
  /\ UNCHANGED <<auxVars, diskHistory, diskQuota, memHistory, memQuota, fsVars, callVars,
                 batchVars, recPre, clockVars, histVars, pc, caller, result,
                 recDone>>

\* The loop is over: return count.
RecoverDone ==
  /\ pc = "recover" /\ todo = {}
  /\ pc' = "recovered"
  /\ recDone' = TRUE
  /\ UNCHANGED <<auxVars, persistVars, fsVars, callVars, batchVars, recVars, clockVars,
                 histVars, caller, result>>

\* __init__ goes on; the window is up and waits for the user or the worker.
StartupDone ==
  /\ pc = "recovered"
  /\ pc' = "idle"
  /\ UNCHANGED <<auxVars, persistVars, fsVars, callVars, batchVars, recVars, clockVars,
                 histVars, caller, result, recDone>>

\* ------------------------------------------------------------------------
\* UploadManager.upload_video
\* ------------------------------------------------------------------------
Return(r) == pc' = "ret" /\ result' = r

TotalUploads == uploads["c1"] + uploads["c2"] + uploads["big"]

Min(a, b) == IF a < b THEN a ELSE b

RECURSIVE Pow2(_)
Pow2(n) == IF n <= 0 THEN 1 ELSE 2 * Pow2(n - 1)

\* Steps 1-5 (lines 267-299): validate, hash, look the hash up in the history,
\* mark the file 'uploading'.  who is the entry point that calls.
UploadVideoBegin(p, who) ==
  /\ cur' = p /\ caller' = who
  /\ callContent' = files[p]
  /\ callDup' = (files[p] \in succeeded)
  /\ callPre' = Persisted
  /\ callRemote' = 0
  /\ callInCooldown' = FALSE
  /\ videoId' = 0
  /\ move_success' = FALSE
  /\ UNCHANGED <<diskHistory, diskQuota, memHistory, memQuota>>
  /\ \/ /\ files[p] = None                              \* not os.path.isfile
        /\ Return("not_found")
        /\ fileHash' = None
        /\ UNCHANGED <<memStates, diskStates>>
     \/ /\ files[p] # None
        /\ Size(files[p]) > MAX_FILE_SIZE_GB
        /\ Return("too_large")
        /\ fileHash' = None
        /\ UNCHANGED <<memStates, diskStates>>
     \/ /\ files[p] # None
        /\ Size(files[p]) <= MAX_FILE_SIZE_GB
        /\ \E readable \in BOOLEAN :
             IF ~readable
             THEN \* compute_file_hash returned None
                  /\ Return("hash_failed")
                  /\ fileHash' = None
                  /\ UNCHANGED <<memStates, diskStates>>
             ELSE IF is_file_uploaded(memHistory, Digest(files[p]))
             THEN /\ Return("already")
                  /\ fileHash' = Digest(files[p])
                  /\ UNCHANGED <<memStates, diskStates>>
             ELSE /\ fileHash' = Digest(files[p])
                  /\ WriteStates(set_upload_state(memStates, p, "uploading", <<>>, <<>>))
                  /\ pc' = "uploading"
                  /\ result' = None

\* The run of non-quota failures of the path ends with this call.
StreakEnds ==
  IF streakPath = cur
  THEN streakPath' = None /\ streak' = 0
  ELSE UNCHANGED streakVars

\* The entry point issues a remote call: inside the cooldown or not.
NoteRemoteCall ==
  /\ callRemote' = callRemote + 1
  /\ callInCooldown' = (callInCooldown \/ is_in_cooldown(memQuota, now))
  /\ remoteIn' = IF caller = "single" THEN remoteIn ELSE remoteIn \cup {cur}

\* Step 8 (lines 333-357): videos().insert succeeds and returns the video id.
RemoteOkStep ==
  /\ pc = "uploading"
  /\ TotalUploads < MaxUploads
  /\ NoteRemoteCall
  /\ uploads' = [uploads EXCEPT ![callContent] = @ + 1]
  /\ videoId' = TotalUploads + 1
  /\ pc' = "uploaded"
  /\ UNCHANGED <<auxVars, persistVars, fsVars, cur, fileHash, move_success, callContent,
                 callDup, callPre, batch, idx, results, called, quotaAt, outcomes, recVars,
                 clockVars, crashes, succeeded, orphaned, partialDone, caller, result,
                 recDone>>

RemoteOk == RemoteOkStep /\ UNCHANGED streakVars

\* Lines 359-366: HttpError with quotaExceeded / uploadLimitExceeded:
\* record_quota_exceeded(), then raise QuotaExceededError.
RemoteQuotaStep ==
  /\ pc = "uploading"
  /\ NoteRemoteCall
  /\ WriteQuota(record_quota_hit(memQuota, now))
  /\ pc' = "quota_hit"
  /\ UNCHANGED <<auxVars, diskHistory, diskStates, memHistory, memStates, fsVars, cur, fileHash,
                 videoId, move_success, callContent, callDup, callPre, batch, idx,
                 results, called, quotaAt, outcomes, recVars, clockVars, crashes, succeeded,
                 orphaned, uploads, partialDone, caller, result, recDone>>

RemoteQuota == RemoteQuotaStep /\ UNCHANGED streakVars

\* Lines 426-430: except QuotaExceededError: set_upload_state(filepath, 'failed'); raise
QuotaFail ==
  /\ pc = "quota_hit"
  /\ WriteStates(set_upload_state(memStates, cur, "failed", <<>>, <<>>))
  /\ quotaAt' = IF caller = "single" THEN 0 ELSE idx + 1
  /\ Return("quota")
  /\ UNCHANGED <<auxVars, diskHistory, diskQuota, memHistory, memQuota, fsVars, callVars,
                 batch, idx, results, called, remoteIn, outcomes, recVars, clockVars, histVars,
                 caller, recDone>>

\* Lines 432-469: any other exception: the retry bookkeeping.
RetryInfo(states, filepath, t) ==
  LET retry_count == get_retry_count(states, filepath) + 1
      delay == Min(INITIAL_RETRY_DELAY_SECONDS * Pow2(retry_count - 1),
                   MAX_RETRY_DELAY_SECONDS)
  IN  IF retry_count < MAX_UPLOAD_RETRY_ATTEMPTS
      THEN set_upload_state(states, filepath, "failed", <<retry_count>>, <<t + delay>>)
      ELSE set_upload_state(states, filepath, "failed", <<retry_count>>, <<>>)

\* Step 8 fails with an error that is not a quota error.
RemoteErrorStep ==
  /\ pc = "uploading"
  /\ NoteRemoteCall
  /\ WriteStates(RetryInfo(memStates, cur, now))
  /\ Return("failed")
  /\ UNCHANGED <<auxVars, diskHistory, diskQuota, memHistory, memQuota, fsVars, cur, fileHash,
                 videoId, move_success, callContent, callDup, callPre, batch, idx,
                 results, called, quotaAt, outcomes, recVars, clockVars, crashes, succeeded,
                 orphaned, uploads, partialDone, caller, recDone>>

RemoteError == RemoteErrorStep /\ UNCHANGED streakVars

\* Step 9 (lines 379-390): no playlist selected, or _add_video_to_playlist
\* returned (True or False): go on.  _add_video_to_playlist raised UploadError
\* (the playlist is gone): mark 'failed' and return the video id.
PlaylistStep ==
  /\ pc = "uploaded"
  /\ \E outcome \in {"continue", "missing"} :
       IF outcome = "continue"
       THEN /\ pc' = "playlist_done"
            /\ UNCHANGED <<memStates, diskStates, result, partialDone>>
       ELSE /\ WriteStates(set_upload_state(memStates, cur, "failed", <<>>, <<>>))
            /\ Return("playlist_missing")
            /\ partialDone' = partialDone \cup {callContent}
  /\ UNCHANGED <<auxVars, diskHistory, diskQuota, memHistory, memQuota, fsVars, callVars,
                 batchVars, recVars, clockVars, crashes, succeeded, orphaned, uploads,
                 streakVars, caller, recDone>>

\* A move whose failure loses the source.
MoveStep_source_lost ==
  /\ pc = "playlist_done"
  /\ \E outcome \in {"moved", "failed"} :
       /\ files' = [files EXCEPT ![cur] = None]
       /\ uploadedDir' = IF outcome = "moved" THEN uploadedDir \cup {callContent}
                         ELSE uploadedDir
       /\ move_success' = (outcome = "moved")
  /\ pc' = "moved"
  /\ UNCHANGED <<auxVars, persistVars, cur, fileHash, videoId, callContent, callDup,
                 callPre, callRemote, callInCooldown, batchVars, recVars, clockVars,
                 histVars, caller, result, recDone>>

\* Step 10 (lines 392-407): safe_move to the Uploaded folder.  SpecMove models
\* safe_move itself; here its three outcomes: moved, the copy or its
\* verification failed, the copy is verified and the source could not be deleted.
MoveStep ==
  /\ pc = "playlist_done"
  /\ \E outcome \in {"moved", "copy_failed", "delete_failed"} :
       /\ files' = IF outcome = "moved" THEN [files EXCEPT ![cur] = None] ELSE files
       /\ uploadedDir' = IF outcome = "copy_failed" THEN uploadedDir
                         ELSE uploadedDir \cup {callContent}
       /\ move_success' = (outcome = "moved")
  /\ pc' = "moved"
  /\ UNCHANGED <<auxVars, persistVars, cur, fileHash, videoId, callContent, callDup,
                 callPre, callRemote, callInCooldown, batchVars, recVars, clockVars,
                 histVars, caller, result, recDone>>

\* Step 11 (lines 409-410)
RecordHistory ==
  /\ pc = "moved"
  /\ WriteHistory(add_upload_to_history(memHistory, fileHash, cur, videoId))
  /\ pc' = "recorded"
  /\ UNCHANGED <<auxVars, diskStates, diskQuota, memStates, memQuota, fsVars, callVars,
                 batchVars, recVars, clockVars, histVars, caller, result, recDone>>

\* Steps 12-13 (lines 412-424)
MarkCompleted ==
  /\ pc = "recorded"
  /\ WriteStates(set_upload_state(memStates, cur, "completed", <<>>, <<>>))
  /\ succeeded' = succeeded \cup {callContent}
  /\ Return("success")
  /\ UNCHANGED <<auxVars, diskHistory, diskQuota, memHistory, memQuota, fsVars, callVars,
                 batchVars, recVars, clockVars, crashes, orphaned, uploads, streakVars,
                 partialDone, caller, recDone>>

\* ------------------------------------------------------------------------
\* The entry points
\* ------------------------------------------------------------------------

\* FileHandler.get_video_files: the names of the folder's video files, sorted.
get_video_files(fs) == SelectSeq(PathOrder, LAMBDA p : fs[p] # None)

\* gui.py _on_upload_single_file: upload_video(filepath) on its own thread.
SingleUpload(p) ==
  /\ pc = "idle"
  /\ UploadVideoBegin(p, "single")
  /\ UNCHANGED <<auxVars, fsVars, batchVars, recVars, clockVars, histVars, recDone>>

\* The start of a batch: video_files is listed, the loop is entered.
BatchBegin(who) ==
  /\ pc = "idle"
  /\ caller' = who
  /\ batch' = get_video_files(files)
  /\ idx' = 0
  /\ results' = [NoResults EXCEPT !.total_files = Len(get_video_files(files))]
  /\ called' = <<>> /\ remoteIn' = {} /\ quotaAt' = 0 /\ outcomes' = <<>>
  /\ pc' = IF get_video_files(files) = <<>> THEN "batch_done" ELSE "loop"
  /\ UNCHANGED <<auxVars, persistVars, fsVars, callVars, recVars, clockVars, histVars,
                 result, recDone>>

\* gui.py _on_force_check: _perform_folder_check on its own thread.
ForceCheck == BatchBegin("force")

\* gui.py _watch_folder_worker: not in cooldown, so _perform_folder_check.
WorkerCheck ==
  /\ ~is_in_cooldown(memQuota, now)
  /\ BatchBegin("worker")

\* gui.py _watch_folder_worker: in cooldown, so sleep until the cooldown ends.
WorkerCooldownWait ==
  /\ pc = "idle"
  /\ is_in_cooldown(memQuota, now)
  /\ ticks < MaxTicks
  /\ now' = cooldown_end(memQuota)
  /\ ticks' = ticks + 1
  /\ UNCHANGED <<auxVars, persistVars, fsVars, callVars, batchVars, recVars, histVars,
                 pc, caller, result, recDone>>

\* UploadManager.upload_files_from_folder
FolderUpload == BatchBegin("folder")

\* The loop body (upload_manager.py 872-887, gui.py 1346-1365): upload the next file.
LoopBody ==
  /\ UploadVideoBegin(batch[idx + 1], caller)
  /\ called' = Append(called, batch[idx + 1])
  /\ UNCHANGED <<auxVars, fsVars, batch, idx, results, remoteIn, quotaAt, outcomes, recVars, clockVars,
                 histVars, recDone>>

LoopNext == pc = "loop" /\ idx < Len(batch) /\ LoopBody

\* The loop is exhausted: the batch returns.
LoopEnd ==
  /\ pc = "loop"
  /\ idx = Len(batch)
  /\ pc' = "batch_done"
  /\ UNCHANGED <<auxVars, persistVars, fsVars, callVars, batchVars, recVars, clockVars,
                 histVars, caller, result, recDone>>

\* What the loop does with upload_video's outcome (upload_manager.py 889-899):
\* the results dict and whether the loop goes on.
AfterUpload(res, r) ==
  IF r = "quota" THEN [res EXCEPT !.quota_exceeded = TRUE]
  ELSE IF r = "success" THEN [res EXCEPT !.success_count = @ + 1]
  ELSE [res EXCEPT !.skip_count = @ + 1]

\* What _perform_folder_check does with it (gui.py 1366-1413): its two
\* counters, and the 'Quota exceeded, stopping upload cycle' line of the log.
GuiAfterUpload(res, r) ==
  IF r = "quota" THEN [res EXCEPT !.fail_count = @ + 1, !.quota_exceeded = TRUE]
  ELSE IF r = "success" THEN [res EXCEPT !.success_count = @ + 1]
  ELSE [res EXCEPT !.fail_count = @ + 1]

\* A loop that goes on whatever happened.
Breaks_never(r) == FALSE

\* Both loops break on QuotaExceededError and on nothing else.
Breaks(r) == r = "quota"

HandleLoop ==
  /\ pc = "ret"
  /\ caller # "single"
  /\ results' = IF caller = "folder" THEN AfterUpload(results, result)
                ELSE GuiAfterUpload(results, result)
  /\ IF Breaks(result)
     THEN pc' = "batch_done" /\ idx' = idx
     ELSE pc' = "loop" /\ idx' = idx + 1
  /\ result' = None
  /\ outcomes' = Append(outcomes, result)
  /\ ResetCall
  /\ UNCHANGED <<auxVars, persistVars, fsVars, batch, called, remoteIn, quotaAt, recVars,
                 clockVars, histVars, caller, recDone>>

\* gui.py 1104-1178: the single-file thread shows the outcome and ends.
HandleSingle ==
  /\ pc = "ret"
  /\ caller = "single"
  /\ pc' = "idle"
  /\ caller' = None
  /\ result' = None
  /\ ResetCall
  /\ UNCHANGED <<auxVars, persistVars, fsVars, batchVars, recVars, clockVars, histVars,
                 recDone>>

\* The batch has returned to its caller.
BatchReturn ==
  /\ pc = "batch_done"
  /\ pc' = "idle"
  /\ caller' = None
  /\ ResetBatch
  /\ UNCHANGED <<auxVars, persistVars, fsVars, callVars, recVars, clockVars, histVars,
                 result, recDone>>

\* ------------------------------------------------------------------------
\* The environment: crashes, restarts, the clock
\* ------------------------------------------------------------------------

\* The process dies: everything in memory is lost, the files stay.
Crash ==
  /\ pc # "down"
  /\ crashes < MaxCrashes
  /\ crashes' = crashes + 1
  /\ pc' = "down"
  /\ memHistory' = EmptyDict /\ memStates' = EmptyDict /\ memQuota' = EmptyDict
  /\ orphaned' = IF /\ orphaned = None
                       /\ pc \in {"uploaded", "playlist_done", "moved"}
                       /\ uploads[callContent] = 1
                 THEN callContent ELSE orphaned
  /\ caller' = None /\ result' = None
  /\ ResetCall /\ ResetBatch
  /\ todo' = {} /\ recCount' = 0 /\ recPre' = EmptyDict
  /\ recDone' = FALSE
  /\ UNCHANGED <<auxVars, diskHistory, diskStates, diskQuota, fsVars, clockVars, succeeded,
                 uploads, streakVars, partialDone>>

\* StateManager.__init__ -> _load_all_state: the state files, written by the
\* program itself, load as they are.  Then the window's __init__ starts
\* reset_incomplete_uploads_to_pending.
Restart ==
  /\ pc = "down"
  /\ memHistory' = diskHistory /\ memStates' = diskStates /\ memQuota' = diskQuota
  /\ todo' = DOMAIN diskStates
  /\ recPre' = diskStates
  /\ recCount' = 0
  /\ pc' = "recover"
  /\ UNCHANGED <<auxVars, diskHistory, diskStates, diskQuota, fsVars, callVars, batchVars,
                 clockVars, histVars, caller, result, recDone>>

TimeJumps == {1, INITIAL_RETRY_DELAY_SECONDS, CooldownSeconds}

\* Time passes: while the application waits, while an upload runs.
Tick(d) ==
  /\ pc \in {"idle", "uploading"}
  /\ ticks < MaxTicks
  /\ now' = now + d
  /\ ticks' = ticks + 1
  /\ UNCHANGED <<auxVars, persistVars, fsVars, callVars, batchVars, recVars, histVars,
                 pc, caller, result, recDone>>

\* Spec: the engine with crashes and restarts.  Files are submitted one at a
\* time, and again after a restart; the clock stands still.
Next ==
  \/ \E p \in Paths : RecoverStep(p)
  \/ RecoverDone
  \/ StartupDone
  \/ \E p \in Paths : SingleUpload(p)
  \/ RemoteOk
  \/ RemoteQuota
  \/ QuotaFail
  \/ RemoteError
  \/ PlaylistStep
  \/ MoveStep
  \/ RecordHistory
  \/ MarkCompleted
  \/ HandleSingle
  \/ Crash
  \/ Restart

Spec == Init /\ [][Next]_vars

\* SpecBatch: one run of the process with every entry point that uploads, the
\* batch loop and the clock.
NextBatch ==
  \/ RecoverDone
  \/ StartupDone
  \/ \E p \in Paths : SingleUpload(p)
  \/ ForceCheck
  \/ WorkerCheck
  \/ WorkerCooldownWait
  \/ FolderUpload
  \/ LoopNext
  \/ LoopEnd
  \/ RemoteOk
  \/ RemoteQuota
  \/ QuotaFail
  \/ RemoteError
  \/ PlaylistStep
  \/ MoveStep
  \/ RecordHistory
  \/ MarkCompleted
  \/ HandleLoop
  \/ HandleSingle
  \/ BatchReturn
  \/ \E d \in TimeJumps : Tick(d)

SpecBatch == Init /\ [][NextBatch]_vars

\* ------------------------------------------------------------------------
\* SpecStop: one run of the process with the batch loops and the Stop and
\* Start buttons.  The window is up and Start Watching has been pressed; the
\* buttons are handled by the main thread while the worker thread is
\* anywhere in its loop.  upload_files_from_folder is given a
\* should_stop_callback that reads the same flag.  A batch is started while
\* the flag is not set.  The clock stands still.
\* ------------------------------------------------------------------------
exceptSt == <<cdVars, awVars, mvVars, ldVars, srVars, guVars, smVars, esVars>>

\* gui.py 1215-1229 (_on_stop_watching) and 1476 (_quit_application)
OnStopWatching ==
  /\ pc \notin {"recover", "recovered"}
  /\ ~should_stop
  /\ should_stop' = TRUE
  /\ stopSnap' = <<[files |-> files, states |-> memStates, started |-> Len(called),
                    checked |-> (pc = "checked")]>>
  /\ UNCHANGED <<engineVars, exceptSt, wkVars>>

\* gui.py 1184-1213 (_on_start_watching): the flag is reset.  A worker that
\* is still in its loop goes on with it.
OnStartWatching ==
  /\ should_stop
  /\ should_stop' = FALSE
  /\ stopSnap' = <<>>
  /\ UNCHANGED <<engineVars, exceptSt, wkVars>>

\* A loop that does not look at the flag.
LoopCheck_ignores_stop ==
  /\ pc = "loop" /\ idx < Len(batch)
  /\ pc' = "checked"
  /\ UNCHANGED <<auxVars, persistVars, fsVars, callVars, batchVars, recVars, clockVars,
                 histVars, caller, result, recDone>>

\* The head of the loop body (gui.py 1335-1339, upload_manager.py 872-876):
\* break when the flag is set.
LoopCheck ==
  /\ pc = "loop" /\ idx < Len(batch)
  /\ pc' = IF should_stop THEN "batch_done" ELSE "checked"
  /\ UNCHANGED <<auxVars, persistVars, fsVars, callVars, batchVars, recVars, clockVars,
                 histVars, caller, result, recDone>>

\* The rest of the loop body (gui.py 1341-1355, upload_manager.py 878-887)
LoopUpload == pc = "checked" /\ LoopBody

\* gui.py 1277: 'while not self.should_stop'; the Force Check button is
\* enabled while watching (gui.py 1200, 1226).
WorkerCheckWatching == ~should_stop /\ WorkerCheck
ForceCheckWatching == ~should_stop /\ ForceCheck

\* upload_files_from_folder, called while the flag is not set.
FolderUploadWatching == ~should_stop /\ FolderUpload

\* The steps of the thread that runs the batch.
BatchThread ==
  \/ LoopCheck
  \/ LoopUpload
  \/ LoopEnd
  \/ RemoteOk
  \/ RemoteQuota
  \/ QuotaFail
  \/ RemoteError
  \/ PlaylistStep
  \/ MoveStep
  \/ RecordHistory
  \/ MarkCompleted
  \/ HandleLoop
  \/ BatchReturn

NextStop ==
  \/ RecoverDone
  \/ StartupDone
  \/ WorkerCheckWatching
  \/ ForceCheckWatching
  \/ FolderUploadWatching
  \/ LoopCheck
  \/ LoopUpload
  \/ LoopEnd
  \/ RemoteOk
  \/ RemoteQuota
  \/ QuotaFail
  \/ RemoteError
  \/ PlaylistStep
  \/ MoveStep
  \/ RecordHistory
  \/ MarkCompleted
  \/ HandleLoop
  \/ BatchReturn
  \/ OnStopWatching
  \/ OnStartWatching

SpecStop == Init /\ [][NextStop]_vars

\* The thread that runs the batch is scheduled and the calls it makes return.
SpecStopFair == SpecStop /\ WF_vars(BatchThread)

\* ------------------------------------------------------------------------
\* SpecWorker: the loop of _watch_folder_worker (gui.py 1268-1307) with
\* _sleep_interruptible (1434-1451), the quota marker and the clock.  What
\* _perform_folder_check uploads is left out: it ends with or without a quota
\* signal.  A quota signal can also come from another thread (a single
\* upload, a playlist sort).
\* ------------------------------------------------------------------------
MaxHits == 2                         \* quota signals
MaxWorkerTicks == 2                  \* clock advances outside a cooldown

\* Everything but the quota marker, the clock, the flag and the worker.
exceptWk == <<diskHistory, diskStates, memHistory, memStates, fsVars, callVars, batchVars,
              recVars, histVars, pc, caller, result, recDone, exceptSt, stopSnap>>

\* A worker that does not look at the cooldown.
WkTop_no_cooldown ==
  /\ wkPc = "top"
  /\ wkPc' = IF should_stop THEN "exit" ELSE "check"
  /\ UNCHANGED <<exceptWk, diskQuota, memQuota, clockVars, should_stop, wkEnd, wkHits>>

\* Lines 1277-1300: the head of the loop.  In cooldown: sleep until
\* get_cooldown_end_time(), then 'continue'.
WkTop ==
  /\ wkPc = "top"
  /\ IF should_stop
     THEN wkPc' = "exit" /\ UNCHANGED wkEnd
     ELSE IF is_in_cooldown(memQuota, now)
     THEN /\ wkPc' = "cooldown_wait"
          /\ wkEnd' = now + (cooldown_end(memQuota) - now)
     ELSE wkPc' = "check" /\ UNCHANGED wkEnd
  /\ UNCHANGED <<exceptWk, diskQuota, memQuota, clockVars, should_stop, wkHits>>

\* _sleep_interruptible returns: the time is up or the flag is set.
WkWake ==
  /\ wkPc \in {"cooldown_wait", "poll_wait"}
  /\ now >= wkEnd \/ should_stop
  /\ wkPc' = "top"
  /\ UNCHANGED <<exceptWk, diskQuota, memQuota, clockVars, should_stop, wkEnd, wkHits>>

\* Lines 1302-1306: _perform_folder_check, then the wait for the next poll.
WkFolderCheck ==
  /\ wkPc = "check"
  /\ \E quota \in BOOLEAN :
       IF quota
       THEN /\ wkHits < MaxHits
            /\ wkHits' = wkHits + 1
            /\ WriteQuota(record_quota_hit(memQuota, now))
       ELSE UNCHANGED <<wkHits, memQuota, diskQuota>>
  /\ wkPc' = "poll_wait"
  /\ wkEnd' = now + WATCH_FOLDER_POLL_INTERVAL
  /\ UNCHANGED <<exceptWk, clockVars, should_stop>>

\* record_quota_exceeded on another thread
WkOtherQuotaHit ==
  /\ wkPc # "exit"
  /\ wkHits < MaxHits
  /\ wkHits' = wkHits + 1
  /\ WriteQuota(record_quota_hit(memQuota, now))
  /\ UNCHANGED <<exceptWk, clockVars, should_stop, wkPc, wkEnd>>

\* _on_stop_watching
WkStop ==
  /\ ~should_stop
  /\ should_stop' = TRUE
  /\ UNCHANGED <<exceptWk, diskQuota, memQuota, clockVars, wkVars>>

WorkerJumps == {SLEEP_INCREMENT_SECONDS, WATCH_FOLDER_POLL_INTERVAL, CooldownSeconds}

\* Time passes.
WkTick(d) ==
  /\ wkPc # "exit"
  /\ \/ ticks < MaxWorkerTicks
     \/ d = CooldownSeconds /\ is_in_cooldown(memQuota, now)
  /\ now' = now + d
  /\ ticks' = Min(ticks + 1, MaxWorkerTicks)
  /\ UNCHANGED <<exceptWk, diskQuota, memQuota, should_stop, wkVars>>

WorkerThread == WkTop \/ WkWake \/ WkFolderCheck

NextWorker ==
  \/ WkTop
  \/ WkWake
  \/ WkFolderCheck
  \/ WkOtherQuotaHit
  \/ WkStop
  \/ \E d \in WorkerJumps : WkTick(d)

InitWorker ==
  /\ EngineIdle /\ CdIdle /\ AwIdle /\ MvIdle /\ LdIdle /\ SrIdle /\ GuIdle /\ SmIdle
  /\ should_stop = FALSE /\ stopSnap = <<>> /\ wkPc = "top" /\ WkIdle /\ EsIdle

SpecWorker == InitWorker /\ [][NextWorker]_vars

\* The worker thread is scheduled and the clock goes on.
SpecWorkerFair ==
  SpecWorker /\ WF_vars(WorkerThread) /\ WF_vars(\E d \in WorkerJumps : WkTick(d))

\* ------------------------------------------------------------------------
\* SpecRetry: one run of the process, files submitted one at a time, the
\* clock, and the consecutive non-quota failures of a path counted.
\* ------------------------------------------------------------------------
RemoteOkCounted == RemoteOkStep /\ StreakEnds

RemoteQuotaCounted == RemoteQuotaStep /\ StreakEnds

RemoteErrorCounted ==
  /\ RemoteErrorStep
  /\ streakPath' = cur
  /\ streak' = IF streakPath = cur THEN Min(streak + 1, MAX_UPLOAD_RETRY_ATTEMPTS) ELSE 1

NextRetry ==
  \/ RecoverDone
  \/ StartupDone
  \/ \E p \in Paths : SingleUpload(p)
  \/ RemoteOkCounted
  \/ RemoteQuotaCounted
  \/ QuotaFail
  \/ RemoteErrorCounted
  \/ PlaylistStep
  \/ MoveStep
  \/ RecordHistory
  \/ MarkCompleted
  \/ HandleSingle
  \/ \E d \in TimeJumps : Tick(d)

SpecRetry == Init /\ [][NextRetry]_vars

\* ------------------------------------------------------------------------
\* SpecFault: one run of the process, files submitted one at a time, and the
\* write of upload_state.json can fail in upload_video.  The clock stands
\* still.  A crash leaves the files of the disk as they are (Crash), so what a
\* crash finds is the disk of the state it happens in.
\* ------------------------------------------------------------------------

\* set_upload_state when _atomic_write_json raises StateManagerError: the
\* dict in memory has been assigned (line 557); the file is as it was, or
\* already replaced when it is the logger that raised after the rename
\* (state_manager.py 139-141).
WriteStatesRaises(new) ==
  /\ memStates' = new
  /\ \/ UNCHANGED diskStates
     \/ diskStates' = new

\* upload_video up to step 5 (lines 267-299), set_upload_state(filepath,
\* 'uploading') raising StateManagerError.
SingleUploadWriteFails(p) ==
  /\ pc = "idle"
  /\ files[p] # None
  /\ Size(files[p]) <= MAX_FILE_SIZE_GB
  /\ ~is_file_uploaded(memHistory, Digest(files[p]))
  /\ cur' = p /\ caller' = "single"
  /\ callContent' = files[p]
  /\ callDup' = (files[p] \in succeeded)
  /\ callPre' = Persisted
  /\ callRemote' = 0
  /\ callInCooldown' = FALSE
  /\ videoId' = 0
  /\ move_success' = FALSE
  /\ fileHash' = Digest(files[p])
  /\ WriteStatesRaises(set_upload_state(memStates, p, "uploading", <<>>, <<>>))
  /\ pc' = "write_failed"
  /\ result' = None
  /\ UNCHANGED <<auxVars, diskHistory, diskQuota, memHistory, memQuota, fsVars, batchVars,
                 recVars, clockVars, histVars, recDone>>

\* Lines 432-469: the StateManagerError is caught by 'except Exception'; the
\* set_upload_state of the handler succeeds and upload_video returns
\* (False, error_msg, None), or raises in its turn and the error leaves
\* upload_video.
WriteFailedExcept ==
  /\ pc = "write_failed"
  /\ \/ WriteStates(RetryInfo(memStates, cur, now)) /\ Return("failed")
     \/ WriteStatesRaises(RetryInfo(memStates, cur, now)) /\ Return("state_error")
  /\ UNCHANGED <<auxVars, diskHistory, diskQuota, memHistory, memQuota, fsVars, callVars,
                 batchVars, recVars, clockVars, histVars, caller, recDone>>

NextFault ==
  \/ RecoverDone
  \/ StartupDone
  \/ \E p \in Paths : SingleUpload(p)
  \/ \E p \in Paths : SingleUploadWriteFails(p)
  \/ WriteFailedExcept
  \/ RemoteOk
  \/ RemoteQuota
  \/ QuotaFail
  \/ RemoteError
  \/ PlaylistStep
  \/ MoveStep
  \/ RecordHistory
  \/ MarkCompleted
  \/ HandleSingle

\* One file of each content, none oversized.
InitFault == Init /\ files = [p \in Paths |-> IF p = "a.mp4" THEN "c1" ELSE "c2"]

SpecFault == InitFault /\ [][NextFault]_vars

\* ========================================================================
\* SpecCooldown: is_in_cooldown and get_cooldown_end_time on datetimes
\* (upload_manager.py 156-216, state_manager.py 716-747)
\* ========================================================================
MaxDay == 1                          \* days the clock of SpecCooldown spans
CdHours   == {0, 23}
CdMinutes == {0, 54, 55, 59}
CdSeconds == {0, 59}
CdMicros  == {0, 999999}

\* A naive datetime; days are counted from the first day of the model.
datetime(d, h, m, sec, us) ==
  [day |-> d, hour |-> h, minute |-> m, second |-> sec, microsecond |-> us]

\* datetime.isoformat(): the fields in order; the fraction is left out when
\* microsecond is 0.
isoformat(dt) ==
  IF dt.microsecond = 0
  THEN <<dt.day, dt.hour, dt.minute, dt.second>>
  ELSE <<dt.day, dt.hour, dt.minute, dt.second, dt.microsecond>>

\* datetime.fromisoformat(): a missing fraction reads as microsecond 0.
fromisoformat(str) ==
  [day |-> str[1], hour |-> str[2], minute |-> str[3], second |-> str[4],
   microsecond |-> IF Len(str) = 5 THEN str[5] ELSE 0]

\* A sum that adds a day and forgets the minutes.
add_timedelta_one_day(dt, hours, minutes) == [dt EXCEPT !.day = @ + 1]

\* datetime + timedelta(hours=hours, minutes=minutes): the fields, with carry.
add_timedelta(dt, hours, minutes) ==
  LET m == dt.minute + minutes
      h == dt.hour + hours + (m \div 60)
  IN  [dt EXCEPT !.minute = m % 60, !.hour = h % 24, !.day = @ + (h \div 24)]

\* datetime < datetime: field by field.
datetime_lt(a, b) ==
  IF a.day # b.day THEN a.day < b.day
  ELSE IF a.hour # b.hour THEN a.hour < b.hour
  ELSE IF a.minute # b.minute THEN a.minute < b.minute
  ELSE IF a.second # b.second THEN a.second < b.second
  ELSE a.microsecond < b.microsecond

\* UploadManager.is_in_cooldown with datetime.now() = now_dt
is_in_cooldown_dt(quota, now_dt) ==
  IF "last_quota_hit" \notin DOMAIN quota THEN FALSE
  ELSE datetime_lt(now_dt, add_timedelta(fromisoformat(quota.last_quota_hit),
                                         QUOTA_COOLDOWN_HOURS,
                                         QUOTA_COOLDOWN_BUFFER_MINUTES))

\* UploadManager.get_cooldown_end_time: <<>> is None
get_cooldown_end_time(quota) ==
  IF "last_quota_hit" \notin DOMAIN quota THEN <<>>
  ELSE <<add_timedelta(fromisoformat(quota.last_quota_hit),
                       QUOTA_COOLDOWN_HOURS, QUOTA_COOLDOWN_BUFFER_MINUTES)>>

\* The instants of the model, and the same instants on a line of seconds.
CdTimes ==
  { datetime(d, h, m, sec, us) :
      d \in 0..MaxDay, h \in CdHours, m \in CdMinutes, sec \in CdSeconds, us \in CdMicros }

SecondsOf(dt) == ((dt.day * 24 + dt.hour) * 60 + dt.minute) * 60 + dt.second

AtSeconds(n, us) == datetime(n \div 86400, (n \div 3600) % 24, (n \div 60) % 60, n % 60, us)

Earlier(a, b) ==
  \/ SecondsOf(a) < SecondsOf(b)
  \/ SecondsOf(a) = SecondsOf(b) /\ a.microsecond < b.microsecond

\* The clock readings a query is made at: around the hit and around the end.
CdOffsets == {0, 1, CooldownSeconds - 1, CooldownSeconds, CooldownSeconds + 1}

CdNows ==
  IF cdHit = <<>> THEN CdTimes
  ELSE { AtSeconds(SecondsOf(cdHit[1]) + d, us) : d \in CdOffsets, us \in CdMicros }

\* StateManager.record_quota_hit with datetime.now() = t
CdRecordQuotaHit(t) ==
  /\ cdQuota' = record_quota_hit(cdQuota, isoformat(t))
  /\ cdHit' = <<t>>
  /\ cdNow' = <<>> /\ cdIn' = <<>> /\ cdEnd' = <<>>
  /\ UNCHANGED <<exceptCd>>

\* is_in_cooldown() and get_cooldown_end_time() called with the clock at n
CdQuery(n) ==
  /\ cdNow' = <<n>>
  /\ cdIn' = <<is_in_cooldown_dt(cdQuota, n)>>
  /\ cdEnd' = get_cooldown_end_time(cdQuota)
  /\ UNCHANGED <<exceptCd, cdQuota, cdHit>>

NextCooldown ==
  \/ \E t \in CdTimes : CdRecordQuotaHit(t)
  \/ \E n \in CdNows : CdQuery(n)

InitCooldown == EngineIdle /\ StIdle /\ CdIdle /\ AwIdle /\ MvIdle /\ LdIdle /\ SrIdle /\ GuIdle /\ SmIdle

SpecCooldown == InitCooldown /\ [][NextCooldown]_vars

\* ========================================================================
\* SpecAtomic: StateManager._atomic_write_json on one state file
\* (state_manager.py 90-152)
\* ========================================================================
MaxVersion == 2                      \* versions of the data the callers write
AwChunks   == 2                      \* writes json.dump makes for one document

Target   == "state.json"
TmpNames == {"tmp1", "tmp2"}         \* names NamedTemporaryFile can pick

\* json.dump(data): the document of version v, chunk by chunk.  A file that
\* holds fewer chunks is a partial document.
json_dump(v) == [i \in 1..AwChunks |-> v]

Complete(content) == \E v \in 1..MaxVersion : content = json_dump(v)

os_path_exists(fs, name) == name \in DOMAIN fs

os_remove(fs, name) == [x \in (DOMAIN fs) \ {name} |-> fs[x]]

\* os.replace / os.rename: in one step the destination holds the source's
\* content and the source name is gone.
os_replace(fs, src, dst) == os_remove(Put(fs, dst, fs[src]), src)

TargetOf(fs) == IF os_path_exists(fs, Target) THEN <<fs[Target]>> ELSE <<>>

\* A temporary file that is the target itself.
NamedTemporaryFile_in_place(fs) == Target

\* tempfile.NamedTemporaryFile(dir=directory, delete=False, suffix='.tmp'):
\* a name that no file of the directory has.
NamedTemporaryFile(fs) == CHOOSE n \in TmpNames : ~os_path_exists(fs, n)

\* A caller (set_upload_state, add_upload_to_history, ...) calls with data v.
AwCall(v) ==
  /\ awPc = "idle"
  /\ \E n \in TmpNames : ~os_path_exists(awFs, n)
  /\ awData' = v
  /\ awOld' = TargetOf(awFs)
  /\ awTmp' = None /\ awTempPath' = FALSE /\ awOutcome' = None /\ awFailedAt' = None
  /\ awPc' = "open"
  /\ UNCHANGED <<exceptAw, awFs>>

\* A step raises: control goes to the except clause.
AwRaise ==
  /\ awPc \in {"open", "dump", "sync", "rename", "log"}
  /\ awFailedAt' = awPc
  /\ awPc' = "except"
  /\ UNCHANGED <<exceptAw, awFs, awData, awOld, awTmp, awTempPath,
                 awOutcome>>

\* with tempfile.NamedTemporaryFile(...) as tmp_file: the empty file is created.
AwOpen ==
  /\ awPc = "open"
  /\ awTmp' = NamedTemporaryFile(awFs)
  /\ awFs' = Put(awFs, NamedTemporaryFile(awFs), <<>>)
  /\ awPc' = "dump"
  /\ UNCHANGED <<exceptAw, awData, awOld, awTempPath, awOutcome,
                 awFailedAt>>

\* json.dump(data, tmp_file, indent=2), one write; after the last one,
\* temp_path = tmp_file.name.
AwDump ==
  /\ awPc = "dump"
  /\ awFs' = Put(awFs, awTmp, Append(awFs[awTmp], awData))
  /\ IF Len(awFs[awTmp]) + 1 = AwChunks
     THEN awPc' = "sync" /\ awTempPath' = TRUE
     ELSE awPc' = "dump" /\ awTempPath' = awTempPath
  /\ UNCHANGED <<exceptAw, awData, awOld, awTmp, awOutcome,
                 awFailedAt>>

\* tmp_file.flush(); os.fsync(tmp_file.fileno()); the with block closes the file.
AwSync ==
  /\ awPc = "sync"
  /\ awPc' = "rename"
  /\ UNCHANGED <<exceptAw, awFs, awData, awOld, awTmp, awTempPath,
                 awOutcome, awFailedAt>>

\* os.replace(temp_path, filepath) when the target exists, else os.rename.
AwRename ==
  /\ awPc = "rename"
  /\ awFs' = os_replace(awFs, awTmp, Target)
  /\ awPc' = "log"
  /\ UNCHANGED <<exceptAw, awData, awOld, awTmp, awTempPath,
                 awOutcome, awFailedAt>>

\* self._log("Atomically wrote ..."), and the call returns.
AwLog ==
  /\ awPc = "log"
  /\ awOutcome' = "returned"
  /\ awPc' = "idle"
  /\ UNCHANGED <<exceptAw, awFs, awData, awOld, awTmp, awTempPath,
                 awFailedAt>>

\* except Exception: remove the temporary file if temp_path is bound and the
\* file exists (a failure of the removal is swallowed), log the error, raise
\* StateManagerError.  The logger is a callback: when it raises, its exception
\* leaves the function instead.
AwExcept ==
  /\ awPc = "except"
  /\ \E removed \in BOOLEAN :
       awFs' = IF awTempPath /\ os_path_exists(awFs, awTmp) /\ removed
               THEN os_remove(awFs, awTmp) ELSE awFs
  /\ \E logged \in BOOLEAN :
       awOutcome' = IF logged THEN "StateManagerError" ELSE "LoggerError"
  /\ awPc' = "idle"
  /\ UNCHANGED <<exceptAw, awData, awOld, awTmp, awTempPath,
                 awFailedAt>>

\* The process dies inside the call; the files stay as they are.  The next
\* process starts with the directory as it is.
AwCrash ==
  /\ awPc \in {"open", "dump", "sync", "rename", "log", "except"}
  /\ awFailedAt' = IF awFailedAt = None THEN awPc ELSE awFailedAt
  /\ awOutcome' = "crashed"
  /\ awPc' = "idle"
  /\ UNCHANGED <<exceptAw, awFs, awData, awOld, awTmp, awTempPath>>

NextAtomic ==
  \/ \E v \in 1..MaxVersion : AwCall(v)
  \/ AwOpen
  \/ AwDump
  \/ AwSync
  \/ AwRename
  \/ AwLog
  \/ AwRaise
  \/ AwExcept
  \/ AwCrash

\* The state file does not exist yet, or holds a complete document.
InitAtomic ==
  /\ EngineIdle /\ StIdle /\ CdIdle /\ MvIdle /\ LdIdle /\ SrIdle /\ GuIdle /\ SmIdle
  /\ awFs \in {EmptyDict, Put(EmptyDict, Target, json_dump(1))}
  /\ awPc = "idle" /\ awData = 0 /\ awOld = <<>>
  /\ awTmp = None /\ awTempPath = FALSE /\ awOutcome = None /\ awFailedAt = None

SpecAtomic == InitAtomic /\ [][NextAtomic]_vars

\* ========================================================================
\* SpecMove: FileHandler.safe_move, safe_copy_and_verify, verify_copy
\* (file_handler.py 203-450)
\* ========================================================================
MvName     == "v.mp4"                \* basename of destination_path
MvSuffixed == "v_ts.mp4"             \* the same with the _YYYYMMDD_HHMMSS suffix

\* verify_copy: the source's hash is cached_source_hash when one is given and
\* computed otherwise; compute_file_hash returns None for a file it cannot read.
verify_copy(src, dst, cached, src_readable, dst_readable) ==
  LET source_hash == IF cached # <<>> THEN cached
                     ELSE IF src_readable THEN <<Digest(src)>> ELSE <<>>
      dest_hash   == IF dst_readable THEN <<Digest(dst)>> ELSE <<>>
  IN  source_hash # <<>> /\ dest_hash # <<>> /\ source_hash = dest_hash

\* A loop that sleeps the initial delay before every attempt.
delete_delay_flat(attempt) == INITIAL_FILE_OPERATION_DELAY

\* The sleep before attempt number attempt of the delete loop.
delete_delay(attempt) ==
  IF attempt = 0 THEN INITIAL_FILE_OPERATION_DELAY
  ELSE Min(INITIAL_FILE_OPERATION_DELAY * Pow2(attempt), MAX_FILE_OPERATION_DELAY)

MvReturn(success) == mvResult' = <<success>> /\ mvPc' = "done"

\* safe_move 374-385: a destination that exists gets the timestamp suffix.
MvPickDestination ==
  /\ mvPc = "start"
  /\ mvDest' = IF os_path_exists(mvDir, MvName) THEN MvSuffixed ELSE MvName
  /\ mvPc' = "copy"
  /\ UNCHANGED <<exceptMv, mvSrc, mvDir, mvCached, mvAttempt, mvSlept,
                 mvResult, mvRemoved>>

\* safe_copy_and_verify 296-312: no source file: False.  shutil.copy2 copies,
\* or raises and may leave a half-written destination behind.
MvCopy ==
  /\ mvPc = "copy"
  /\ IF mvSrc = None
     THEN MvReturn(FALSE) /\ UNCHANGED mvDir
     ELSE \E outcome \in {"copied", "raised", "raised_partial"} :
            /\ mvDir' = CASE outcome = "copied" -> Put(mvDir, mvDest, mvSrc)
                          [] outcome = "raised" -> mvDir
                          [] outcome = "raised_partial" -> Put(mvDir, mvDest, "junk")
            /\ IF outcome = "copied"
               THEN mvPc' = "copied" /\ UNCHANGED mvResult
               ELSE MvReturn(FALSE)
  /\ UNCHANGED <<exceptMv, mvSrc, mvDest, mvCached, mvAttempt, mvSlept,
                 mvRemoved>>

\* Another program rewrites the source between the copy and the verification.
MvSourceModified ==
  /\ mvPc = "copied"
  /\ \E c \in {"c1", "c2"} \ {mvSrc} : mvSrc' = c
  /\ UNCHANGED <<exceptMv, mvDir, mvDest, mvCached, mvPc, mvAttempt,
                 mvSlept, mvResult, mvRemoved>>

\* The copy is damaged between the copy and the verification.
MvDestCorrupted ==
  /\ mvPc = "copied"
  /\ mvDir[mvDest] # "junk"
  /\ mvDir' = Put(mvDir, mvDest, "junk")
  /\ UNCHANGED <<exceptMv, mvSrc, mvDest, mvCached, mvPc, mvAttempt,
                 mvSlept, mvResult, mvRemoved>>

\* safe_copy_and_verify 315-327: verify_copy; on failure the copy is removed
\* (a failure of the removal is logged) and False is returned.
MvVerify ==
  /\ mvPc = "copied"
  /\ \E src_readable, dst_readable, cleaned \in BOOLEAN :
       IF verify_copy(mvSrc, mvDir[mvDest], mvCached, src_readable, dst_readable)
       THEN /\ mvPc' = "delete"
            /\ UNCHANGED <<mvDir, mvResult>>
       ELSE /\ mvDir' = IF cleaned THEN os_remove(mvDir, mvDest) ELSE mvDir
            /\ MvReturn(FALSE)
  /\ UNCHANGED <<exceptMv, mvSrc, mvDest, mvCached, mvAttempt, mvSlept,
                 mvRemoved>>

\* safe_move 394-445: one attempt of the delete loop: sleep, os.remove.
MvDelete ==
  /\ mvPc = "delete"
  /\ mvAttempt < MAX_FILE_OPERATION_RETRIES
  /\ mvSlept' = mvSlept + delete_delay(mvAttempt)
  /\ \E removed \in BOOLEAN :
       IF removed
       THEN /\ mvRemoved' = mvSrc
            /\ mvSrc' = None
            /\ MvReturn(TRUE)
            /\ UNCHANGED mvAttempt
       ELSE /\ mvAttempt' = mvAttempt + 1
            /\ IF mvAttempt < MAX_FILE_OPERATION_RETRIES - 1
               THEN UNCHANGED <<mvPc, mvResult>>
               ELSE MvReturn(FALSE)
            /\ UNCHANGED <<mvSrc, mvRemoved>>
  /\ UNCHANGED <<exceptMv, mvDir, mvDest, mvCached>>

NextMove ==
  \/ MvPickDestination
  \/ MvCopy
  \/ MvSourceModified
  \/ MvDestCorrupted
  \/ MvVerify
  \/ MvDelete

\* The arguments and the folders a call can find: a source that exists or not,
\* a destination name that is free or taken, with or without a cached hash
\* (computed from content c1 when the upload started).
InitMove ==
  /\ EngineIdle /\ StIdle /\ CdIdle /\ AwIdle /\ LdIdle /\ SrIdle /\ GuIdle /\ SmIdle
  /\ mvSrc \in {None, "c1", "c2"}
  /\ mvDir \in { EmptyDict,
                 Put(EmptyDict, MvName, "c1"),
                 Put(EmptyDict, MvName, "c2"),
                 Put(Put(EmptyDict, MvName, "c1"), MvSuffixed, "c2") }
  /\ mvCached \in {<<>>, <<Digest("c1")>>}
  /\ mvPc = "start" /\ mvDest = None
  /\ mvAttempt = 0 /\ mvSlept = 0 /\ mvResult = <<>> /\ mvRemoved = None

SpecMove == InitMove /\ [][NextMove]_vars

\* SpecMoveFair: the delete loop is sequential code, time.sleep and os.remove
\* return, so a call that is in the loop makes its next attempt.
SpecMoveFair == SpecMove /\ WF_vars(MvDelete)

\* ========================================================================
\* SpecLoad: StateManager._load_json_with_validation on upload_state.json
\* (state_manager.py 154-206, 243-283)
\* ========================================================================
MaxLoadTime == 1                     \* seconds the clock of SpecLoad spans

\* The values of upload_state.json: a timestamp is always the string "t".
valid_states == {"pending", "uploading", "completed", "failed"}

LdEntries ==
  { [state |-> "uploading", timestamp |-> "t"],
    [state |-> "completed", timestamp |-> "t"],
    [state |-> "uploading"],                        \* no timestamp
    [state |-> "bogus", timestamp |-> "t"] }        \* not a state

\* JSON values: a dict of entries, or a list.
LdValue(kind, entries) == [kind |-> kind, entries |-> entries]
LdEmpty == LdValue("dict", EmptyDict)
LdValues ==
  { LdValue("dict", d) : d \in UNION { [S -> LdEntries] : S \in SUBSET Paths } }
    \cup { LdValue("list", EmptyDict) }

\* A document is the text of a JSON value, whole or cut short.
LdDocs == { [whole |-> w, value |-> v] : w \in BOOLEAN, v \in LdValues }

\* json.load: <<value>>, or <<>> for JSONDecodeError.
json_load(doc) == IF doc.whole THEN <<doc.value>> ELSE <<>>

\* _validate_upload_state_schema (lines 243-283)
validate_upload_state_schema(data) ==
  /\ data.kind = "dict"
  /\ \A p \in DOMAIN data.entries :
       /\ "state" \in DOMAIN data.entries[p]
       /\ "timestamp" \in DOMAIN data.entries[p]
       /\ data.entries[p].state \in valid_states

\* The whole call: the file is absent; json.load raises JSONDecodeError and
\* the file is copied aside (shutil.copy2 can fail, which is logged); the
\* validator rejects the data and the ValueError is caught by 'except
\* Exception'; or the data is returned.
LdLoad ==
  /\ ldPc = "idle"
  /\ ldPc' = "done"
  /\ ldOld' = ldBackups
  /\ \E t \in 0..MaxLoadTime, copy_ok \in BOOLEAN :
       /\ ldTime' = t
       /\ IF ldFile = <<>>
          THEN /\ ldResult' = <<LdEmpty>>
               /\ UNCHANGED <<ldBackups, ldCopyFailed>>
          ELSE IF json_load(ldFile[1]) = <<>>
          THEN /\ ldResult' = <<LdEmpty>>
               /\ ldBackups' = IF copy_ok THEN Put(ldBackups, t, ldFile[1]) ELSE ldBackups
               /\ ldCopyFailed' = ~copy_ok
          ELSE IF ~validate_upload_state_schema(json_load(ldFile[1])[1])
          THEN /\ ldResult' = <<LdEmpty>>
               /\ UNCHANGED <<ldBackups, ldCopyFailed>>
          ELSE /\ ldResult' = json_load(ldFile[1])
               /\ UNCHANGED <<ldBackups, ldCopyFailed>>
  /\ UNCHANGED <<exceptLd, ldFile>>

NextLoad == LdLoad

InitLoad ==
  /\ EngineIdle /\ StIdle /\ CdIdle /\ AwIdle /\ MvIdle /\ SrIdle /\ GuIdle /\ SmIdle
  /\ ldFile \in {<<>>} \cup { <<d>> : d \in LdDocs }
  /\ ldBackups \in { EmptyDict, Put(EmptyDict, 0, [whole |-> FALSE, value |-> LdEmpty]) }
  /\ ldOld = ldBackups
  /\ ldPc = "idle" /\ ldTime = 0 /\ ldCopyFailed = FALSE /\ ldResult = <<>>

SpecLoad == InitLoad /\ [][NextLoad]_vars

\* ========================================================================
\* SpecSort: UploadManager.sort_playlist_alphabetically
\* (upload_manager.py 626-830, state_manager.py 768-827)
\* ========================================================================
MaxItems == 3                        \* items of the playlist
MaxSortRuns == 3                     \* calls of sort_playlist_alphabetically

Playlist == "PL_A"
OtherPlaylist == "PL_B"

\* playlistItems().list(playlistId=playlist_id), all pages (lines 672-694)
PlaylistItems(playlist_id) == IF playlist_id = Playlist THEN srRemote ELSE srOther

\* Item i has a one-letter title; items 1 and 2, 3 and 4, ... differ in case only.
Title(i) == [letter |-> (i + 1) \div 2, upper |-> (i % 2 = 0)]

\* str.lower()
lower(title) == [title EXCEPT !.upper = FALSE]

\* The order of str on lower-case one-letter titles.
title_le(a, b) == a.letter <= b.letter

\* A sort that puts an item before the items with an equal key.
RECURSIVE sort_by_title_unstable(_)
sort_by_title_unstable(items) ==
  IF items = <<>> THEN <<>>
  ELSE LET init == sort_by_title_unstable(SubSeq(items, 1, Len(items) - 1))
           x == items[Len(items)]
           k == Cardinality({ j \in 1..Len(init) :
                                ~title_le(lower(Title(x)), lower(Title(init[j]))) })
       IN  SubSeq(init, 1, k) \o <<x>> \o SubSeq(init, k + 1, Len(init))

\* list.sort(key=lambda x: x['title'].lower()): stable.
RECURSIVE sort_by_title(_)
sort_by_title(items) ==
  IF items = <<>> THEN <<>>
  ELSE LET init == sort_by_title(SubSeq(items, 1, Len(items) - 1))
           x == items[Len(items)]
           \* x goes after every item whose key is not greater than its own
           k == Cardinality({ j \in 1..Len(init) :
                                title_le(lower(Title(init[j])), lower(Title(x))) })
       IN  SubSeq(init, 1, k) \o <<x>> \o SubSeq(init, k + 1, Len(init))

\* playlistItems().update with snippet.position: the item is taken out and
\* put back at the 0-based position.
MoveTo(playlist, item, position) ==
  LET rest == SelectSeq(playlist, LAMBDA x : x # item)
  IN  SubSeq(rest, 1, position) \o <<item>> \o SubSeq(rest, position + 1, Len(rest))

\* A lookup that does not compare the playlist id.
get_playlist_sort_state_any(state, playlist_id) ==
  IF DOMAIN state = {} THEN <<>> ELSE <<state>>

\* get_playlist_sort_state (lines 768-792): <<>> is None.
get_playlist_sort_state(state, playlist_id) ==
  IF DOMAIN state = {} THEN <<>>
  ELSE IF state.playlist_id = playlist_id THEN <<state>>
  ELSE <<>>

\* A save that records the position after the last successful one.
save_playlist_sort_state_next(playlist_id, sorted_items, last_position) ==
  [playlist_id |-> playlist_id, sorted_items |-> sorted_items,
   last_position |-> last_position + 1]

\* save_playlist_sort_state (lines 794-815): the new playlist_sort_state
save_playlist_sort_state(playlist_id, sorted_items, last_position) ==
  [playlist_id |-> playlist_id, sorted_items |-> sorted_items,
   last_position |-> last_position]

SrReturns(success, message, items_sorted) ==
  /\ srPc' = "done"
  /\ srResult' = <<[success |-> success, message |-> message, items_sorted |-> items_sorted]>>

\* Steps 0-2 (lines 655-732): resume from the saved state of this playlist,
\* or fetch the items and sort them.
SrBegin(playlist_id) ==
  /\ srPc = "idle"
  /\ srPlaylist' = playlist_id
  /\ srTried' = 0 /\ srErrors' = 0
  /\ srRuns < MaxSortRuns
  /\ srRuns' = srRuns + 1
  /\ LET saved_state == get_playlist_sort_state(srMem, playlist_id)
     IN  IF saved_state # <<>>
         THEN /\ srSorted' = saved_state[1].sorted_items
              /\ srPos' = saved_state[1].last_position + 1
              /\ srUpdated' = saved_state[1].last_position + 1
              /\ srLast' = saved_state[1].last_position
              /\ srFailed' = 0 /\ srQuota' = FALSE
              /\ srResumed' = TRUE
              /\ srPc' = "loop"
              /\ UNCHANGED <<srResult, srFirst, srLog, srHadError, srCrashed>>
         ELSE \E fetched \in BOOLEAN :
                /\ srFirst' = PlaylistItems(playlist_id) /\ srLog' = <<>>
                /\ srHadError' = FALSE /\ srCrashed' = FALSE
                /\ srResumed' = FALSE
                /\ srFailed' = 0 /\ srQuota' = FALSE
                /\ srPos' = 0 /\ srUpdated' = 0 /\ srLast' = -1
                /\ IF ~fetched                    \* playlistItems().list raised
                   THEN srSorted' = <<>> /\ SrReturns(FALSE, "api_error", 0)
                   ELSE IF PlaylistItems(playlist_id) = <<>>
                   THEN srSorted' = <<>> /\ SrReturns(FALSE, "empty", 0)
                   ELSE /\ srSorted' = sort_by_title(PlaylistItems(playlist_id))
                        /\ srPc' = "loop"
                        /\ UNCHANGED srResult
  /\ UNCHANGED <<exceptSr, srRemote, srOther, srMem, srDisk, srQuotaHits>>

\* Step 3 (lines 741-773): the update of new_position is accepted.
SrCommitOk ==
  /\ srPc = "loop" /\ srPos < Len(srSorted)
  /\ IF srPlaylist = Playlist
     THEN srRemote' = MoveTo(srRemote, srSorted[srPos + 1], srPos) /\ UNCHANGED srOther
     ELSE srOther' = MoveTo(srOther, srSorted[srPos + 1], srPos) /\ UNCHANGED srRemote
  /\ srLog' = Append(srLog, <<srSorted[srPos + 1], srPos>>)
  /\ srUpdated' = srUpdated + 1
  /\ srLast' = srPos
  /\ srPos' = srPos + 1
  /\ srTried' = srTried + 1 /\ UNCHANGED srErrors
  /\ UNCHANGED <<exceptSr, srPlaylist, srMem, srDisk, srQuotaHits, srPc, srSorted, srFailed,
                 srQuota,
                 srResult, srRuns, srFirst, srHadError, srCrashed, srResumed>>

\* Lines 775-795: the update raises a quota HttpError.
SrCommitQuota ==
  /\ srPc = "loop" /\ srPos < Len(srSorted)
  /\ srQuotaHits' = srQuotaHits + 1
  /\ srMem' = save_playlist_sort_state(srPlaylist, srSorted, srLast)
  /\ srDisk' = save_playlist_sort_state(srPlaylist, srSorted, srLast)
  /\ srQuota' = TRUE
  /\ srTried' = srTried + 1 /\ UNCHANGED srErrors
  /\ srFailed' = Len(srSorted) - srUpdated
  /\ srPc' = "report"
  /\ UNCHANGED <<exceptSr, srRemote, srOther, srPlaylist, srSorted, srPos, srUpdated, srLast,
                 srResult, srRuns,
                 srFirst, srLog, srHadError, srCrashed, srResumed>>

\* Another HttpError that ends the loop.
SrCommitError_stops ==
  /\ srPc = "loop" /\ srPos < Len(srSorted)
  /\ srFailed' = srFailed + 1
  /\ srPc' = "report"
  /\ srHadError' = TRUE
  /\ srTried' = srTried + 1 /\ srErrors' = srErrors + 1
  /\ UNCHANGED <<exceptSr, srRemote, srOther, srPlaylist, srMem, srDisk, srQuotaHits, srPos,
                 srSorted, srUpdated, srQuota, srLast, srResult, srRuns, srFirst, srLog,
                 srCrashed, srResumed>>

\* Lines 796-800: the update raises another HttpError: count it and go on.
SrCommitError ==
  /\ srPc = "loop" /\ srPos < Len(srSorted)
  /\ srFailed' = srFailed + 1
  /\ srPos' = srPos + 1
  /\ srHadError' = TRUE
  /\ srTried' = srTried + 1 /\ srErrors' = srErrors + 1
  /\ UNCHANGED <<exceptSr, srRemote, srOther, srPlaylist, srMem, srDisk, srQuotaHits, srPc,
                 srSorted, srUpdated,
                 srQuota, srLast, srResult, srRuns, srFirst, srLog, srCrashed, srResumed>>

\* Step 4 (lines 803-821): the report.
SrReport ==
  /\ \/ srPc = "loop" /\ srPos = Len(srSorted)
     \/ srPc = "report"
  /\ IF srQuota
     THEN SrReturns(FALSE, "quota", srUpdated) /\ UNCHANGED <<srMem, srDisk>>
     ELSE IF srFailed > 0
     THEN SrReturns(FALSE, "partial", srUpdated) /\ UNCHANGED <<srMem, srDisk>>
     ELSE /\ srMem' = EmptyDict /\ srDisk' = EmptyDict
          /\ SrReturns(TRUE, "sorted", srUpdated)
  /\ UNCHANGED <<exceptSr, srRemote, srOther, srPlaylist, srQuotaHits, srSorted, srPos,
                 srTried, srErrors,
                 srUpdated, srFailed,
                 srQuota, srLast, srRuns, srFirst, srLog, srHadError, srCrashed, srResumed>>

\* gui.py 1025-1060: the caller shows the result.
SrReturn ==
  /\ srPc = "done"
  /\ srPc' = "idle"
  /\ srSorted' = <<>> /\ srPos' = 0 /\ srUpdated' = 0 /\ srFailed' = 0 /\ srQuota' = FALSE
  /\ srLast' = -1 /\ srResumed' = FALSE /\ srPlaylist' = None
  /\ srTried' = 0 /\ srErrors' = 0
  /\ srResult' = <<>>
  /\ UNCHANGED <<exceptSr, srRemote, srOther, srMem, srDisk, srQuotaHits, srRuns, srFirst, srLog,
                 srHadError, srCrashed>>

\* The process dies during the call and is started again: the saved state
\* is loaded from playlist_sort_state.json (_load_all_state).
SrCrash ==
  /\ srPc \in {"loop", "report"}
  /\ srPc' = "idle"
  /\ srMem' = srDisk
  /\ srSorted' = <<>> /\ srPos' = 0 /\ srUpdated' = 0 /\ srFailed' = 0 /\ srQuota' = FALSE
  /\ srLast' = -1 /\ srResumed' = FALSE /\ srPlaylist' = None
  /\ srTried' = 0 /\ srErrors' = 0
  /\ srCrashed' = TRUE
  /\ UNCHANGED <<exceptSr, srRemote, srOther, srDisk, srQuotaHits, srResult, srRuns, srFirst, srLog,
                 srHadError>>

NextSort ==
  \/ SrBegin(Playlist)
  \/ SrCommitOk
  \/ SrCommitQuota
  \/ SrCommitError
  \/ SrReport
  \/ SrReturn
  \/ SrCrash

\* The orders of the items 1..n
Orders(n) == { q \in [1..n -> 1..n] : \A i, j \in 1..n : q[i] = q[j] => i = j }

InitSort ==
  /\ EngineIdle /\ StIdle /\ CdIdle /\ AwIdle /\ MvIdle /\ LdIdle /\ GuIdle /\ SmIdle
  /\ srRemote \in UNION { Orders(n) : n \in 0..MaxItems } /\ srOther = <<>>
  /\ srMem = EmptyDict /\ srDisk = EmptyDict /\ srQuotaHits = 0
  /\ srPc = "idle" /\ SrLocalsIdle /\ srResult = <<>> /\ srRuns = 0
  /\ srFirst = <<>> /\ srLog = <<>> /\ srHadError = FALSE /\ srCrashed = FALSE

SpecSort == InitSort /\ [][NextSort]_vars

\* ------------------------------------------------------------------------
\* SpecEstimate: UploadManager.estimate_sort_quota_cost (lines 602-624),
\* called by _on_sort_playlist with the item count of the playlist.
\* ------------------------------------------------------------------------
MaxVideos == 101                     \* num_videos

\* An estimate that counts the full pages only.
estimate_full_pages(num_videos) ==
  (num_videos \div 50) * QUOTA_COST_PLAYLIST_LIST + num_videos * QUOTA_COST_PLAYLIST_UPDATE

estimate_sort_quota_cost(num_videos) ==
  LET fetch_pages == (num_videos + 49) \div 50
      fetch_cost == fetch_pages * QUOTA_COST_PLAYLIST_LIST
      update_cost == num_videos * QUOTA_COST_PLAYLIST_UPDATE
  IN  fetch_cost + update_cost

EsCall ==
  /\ esCost = <<>>
  /\ esCost' = <<estimate_sort_quota_cost(esVideos)>>
  /\ UNCHANGED <<engineVars, cdVars, awVars, mvVars, ldVars, srVars, guVars, smVars, esVideos,
                 should_stop, stopSnap, wkVars>>

NextEstimate == EsCall

InitEstimate ==
  /\ EngineIdle /\ CdIdle /\ AwIdle /\ MvIdle /\ LdIdle /\ SrIdle /\ GuIdle /\ SmIdle
  /\ should_stop = FALSE /\ stopSnap = <<>> /\ wkPc = None /\ WkIdle
  /\ esVideos \in 0..MaxVideos /\ esCost = <<>>

SpecEstimate == InitEstimate /\ [][NextEstimate]_vars

\* Two playlists are sorted from the same window (gui.py 947-949, 1027-1030:
\* the id of the playlist selected there); there is one playlist_sort_state.
MaxItemsTwo == 2                     \* items of each of the two playlists
MaxSortRunsTwo == 2                  \* calls of sort_playlist_alphabetically

Playlists == {Playlist, OtherPlaylist}

NextSortTwo ==
  \/ \E playlist_id \in Playlists : srRuns < MaxSortRunsTwo /\ SrBegin(playlist_id)
  \/ SrCommitOk
  \/ SrCommitQuota
  \/ SrCommitError
  \/ SrReport
  \/ SrReturn
  \/ SrCrash

InitSortTwo ==
  /\ EngineIdle /\ StIdle /\ CdIdle /\ AwIdle /\ MvIdle /\ LdIdle /\ GuIdle /\ SmIdle
  /\ srRemote \in UNION { Orders(n) : n \in 0..MaxItemsTwo }
  /\ srOther \in UNION { Orders(n) : n \in 0..MaxItemsTwo }
  /\ srMem = EmptyDict /\ srDisk = EmptyDict /\ srQuotaHits = 0
  /\ srPc = "idle" /\ SrLocalsIdle /\ srResult = <<>> /\ srRuns = 0
  /\ srFirst = <<>> /\ srLog = <<>> /\ srHadError = FALSE /\ srCrashed = FALSE

SpecSortTwo == InitSortTwo /\ [][NextSortTwo]_vars

\* ========================================================================
\* SpecGui: the threads that run upload_video (gui.py 1079-1178, 1184-1213,
\* 1249-1262, 1268-1432).  Nothing in gui.py, upload_manager.py or
\* state_manager.py takes a lock.
\* ========================================================================
Threads == {"worker", "force", "single"}

ThreadOff == [pc |-> "off", list |-> <<>>, idx |-> 0, path |-> None, content |-> None,
              video_id |-> 0]

\* _on_start_watching: the buttons, then the worker thread is started.
on_start_watching ==
  /\ guStart
  /\ guStart' = FALSE /\ guForce' = TRUE
  /\ guThreads' = [guThreads EXCEPT !["worker"] = [ThreadOff EXCEPT !.pc = "check"]]
  /\ UNCHANGED <<exceptGu, guSingle, guFiles, guHistory, guRecords, guAccepted>>

\* _on_force_check: a thread that runs _perform_folder_check is started.
on_force_check ==
  /\ guForce
  /\ guThreads["force"].pc = "off"
  /\ guThreads' = [guThreads EXCEPT !["force"] = [ThreadOff EXCEPT !.pc = "check"]]
  /\ UNCHANGED <<exceptGu, guStart, guForce, guSingle, guFiles, guHistory, guRecords,
                 guAccepted>>

\* _on_upload_single_file: the button is disabled, the thread is started.
on_upload_single_file(p) ==
  /\ guSingle
  /\ guSingle' = FALSE
  /\ guThreads' = [guThreads EXCEPT !["single"] =
                     [ThreadOff EXCEPT !.pc = "call", !.list = <<p>>]]
  /\ UNCHANGED <<exceptGu, guStart, guForce, guFiles, guHistory, guRecords, guAccepted>>

\* _perform_folder_check lists the folder (lines 1317-1343).  With nothing to
\* upload the forced check ends and the worker sleeps, then checks again.
perform_folder_check(t) ==
  /\ t \in {"worker", "force"}
  /\ guThreads[t].pc = "check"
  /\ guThreads' = [guThreads EXCEPT ![t] =
        IF get_video_files(guFiles) = <<>>
        THEN IF t = "worker" THEN @ ELSE ThreadOff
        ELSE [ThreadOff EXCEPT !.pc = "call", !.list = get_video_files(guFiles)]]
  /\ UNCHANGED <<exceptGu, guStart, guForce, guSingle, guFiles, guHistory, guRecords,
                 guAccepted>>

\* The thread is done with a file: the next one, or the end of the thread's
\* work (the worker sleeps and checks again, the single-file thread enables
\* its button).
GuAdvance(t) ==
  IF guThreads[t].idx + 1 < Len(guThreads[t].list)
  THEN [guThreads[t] EXCEPT !.pc = "call", !.idx = @ + 1, !.path = None, !.content = None,
                            !.video_id = 0]
  ELSE IF t = "worker" THEN [ThreadOff EXCEPT !.pc = "check"] ELSE ThreadOff

GuSingleAfter(t, advanced) ==
  IF t = "single" /\ advanced.pc = "off" THEN TRUE ELSE guSingle

\* upload_video steps 1-5 in thread t: validation, the history lookup,
\* set_upload_state(filepath, 'uploading').
GuCall(t) ==
  /\ guThreads[t].pc = "call"
  /\ LET p == guThreads[t].list[guThreads[t].idx + 1]
     IN  IF guFiles[p] = None \/ is_file_uploaded(guHistory, Digest(guFiles[p]))
         THEN /\ guThreads' = [guThreads EXCEPT ![t] = GuAdvance(t)]
              /\ guSingle' = GuSingleAfter(t, GuAdvance(t))
              /\ UNCHANGED guRecords
         ELSE /\ guThreads' = [guThreads EXCEPT ![t] =
                     [@ EXCEPT !.pc = "uploading", !.path = p, !.content = guFiles[p]]]
              /\ guRecords' = Put(guRecords, p, "uploading")
              /\ UNCHANGED guSingle
  /\ UNCHANGED <<exceptGu, guStart, guForce, guFiles, guHistory, guAccepted>>

\* Step 8 in thread t: the service accepts the upload, or the request fails.
GuRemote(t) ==
  /\ guThreads[t].pc = "uploading"
  /\ \/ /\ guAccepted["c1"] + guAccepted["c2"] < MaxUploads
        /\ guAccepted' = [guAccepted EXCEPT ![guThreads[t].content] = @ + 1]
        /\ guThreads' = [guThreads EXCEPT ![t] =
              [@ EXCEPT !.pc = "uploaded",
                        !.video_id = guAccepted["c1"] + guAccepted["c2"] + 1]]
        /\ UNCHANGED <<guRecords, guSingle>>
     \/ /\ guRecords' = Put(guRecords, guThreads[t].path, "failed")
        /\ guThreads' = [guThreads EXCEPT ![t] = GuAdvance(t)]
        /\ guSingle' = GuSingleAfter(t, GuAdvance(t))
        /\ UNCHANGED guAccepted
  /\ UNCHANGED <<exceptGu, guStart, guForce, guFiles, guHistory>>

\* Steps 10-13 in thread t: safe_move (which fails when another thread has
\* moved the file away), the history record, 'completed'.
GuFinish(t) ==
  /\ guThreads[t].pc = "uploaded"
  /\ guFiles' = [guFiles EXCEPT ![guThreads[t].path] = None]
  /\ guHistory' = add_upload_to_history(guHistory, Digest(guThreads[t].content),
                                        guThreads[t].path, guThreads[t].video_id)
  /\ guRecords' = Put(guRecords, guThreads[t].path, "completed")
  /\ guThreads' = [guThreads EXCEPT ![t] = GuAdvance(t)]
  /\ guSingle' = GuSingleAfter(t, GuAdvance(t))
  /\ UNCHANGED <<exceptGu, guStart, guForce, guAccepted>>

NextGui ==
  \/ on_start_watching
  \/ on_force_check
  \/ \E p \in Paths : on_upload_single_file(p)
  \/ \E t \in Threads : perform_folder_check(t)
  \/ \E t \in Threads : GuCall(t)
  \/ \E t \in Threads : GuRemote(t)
  \/ \E t \in Threads : GuFinish(t)

InitGui ==
  /\ EngineIdle /\ StIdle /\ CdIdle /\ AwIdle /\ MvIdle /\ LdIdle /\ SrIdle /\ SmIdle
  /\ guStart = TRUE /\ guForce = FALSE /\ guSingle = TRUE
  /\ guThreads = [t \in Threads |-> ThreadOff]
  /\ guFiles \in [Paths -> {"c1", "c2"}]
  /\ guHistory = EmptyDict /\ guRecords = EmptyDict
  /\ guAccepted = [c \in {"c1", "c2"} |-> 0]

SpecGui == InitGui /\ [][NextGui]_vars

\* ========================================================================
\* SpecMutators: two threads call set_upload_state on one StateManager
\* (state_manager.py 524-561 and _atomic_write_json, 112-141).  The threads
\* share self.upload_states; json.dump iterates over it while it writes.
\* ========================================================================
Callers == {"t1", "t2"}

SmStates == {"uploading", "failed"}

SmOff(p, st) == [pc |-> "assign", path |-> p, state |-> st, seen |-> EmptyDict,
                 tmp |-> EmptyDict]

\* Line 557: self.upload_states[filepath] = state_info
SmAssign(t) ==
  /\ smThreads[t].pc = "assign"
  /\ smMem' = Put(smMem, smThreads[t].path, smThreads[t].state)
  /\ smThreads' = [smThreads EXCEPT ![t] = [@ EXCEPT !.pc = "dump"]]
  /\ UNCHANGED <<exceptSm, smDisk>>

\* Line 125: json.dump(data, tmp_file) starts to iterate over the dict.
SmDumpBegin(t) ==
  /\ smThreads[t].pc = "dump"
  /\ smThreads' = [smThreads EXCEPT ![t] = [@ EXCEPT !.pc = "dumping", !.seen = smMem]]
  /\ UNCHANGED <<exceptSm, smMem, smDisk>>

\* json.dump ends.  If the other thread has added a key meanwhile, the
\* iteration either had passed its last item (the document is the dict as it
\* was) or raises 'dictionary changed size during iteration', which
\* _atomic_write_json turns into StateManagerError.  A value replaced
\* meanwhile is written as it was or as it is.
SmDumpEnd(t) ==
  /\ smThreads[t].pc = "dumping"
  /\ IF DOMAIN smMem # DOMAIN smThreads[t].seen
     THEN \/ smThreads' = [smThreads EXCEPT ![t] =
                             [@ EXCEPT !.pc = "rename", !.tmp = smThreads[t].seen]]
          \/ smThreads' = [smThreads EXCEPT ![t] = [@ EXCEPT !.pc = "raised"]]
     ELSE \E doc \in {smThreads[t].seen, smMem} :
            smThreads' = [smThreads EXCEPT ![t] = [@ EXCEPT !.pc = "rename", !.tmp = doc]]
  /\ UNCHANGED <<exceptSm, smMem, smDisk>>

\* Lines 134-139: os.replace / os.rename of the thread's temporary file.
SmRename(t) ==
  /\ smThreads[t].pc = "rename"
  /\ smDisk' = smThreads[t].tmp
  /\ smThreads' = [smThreads EXCEPT ![t] = [@ EXCEPT !.pc = "returned"]]
  /\ UNCHANGED <<exceptSm, smMem>>

NextMutators ==
  \/ \E t \in Callers : SmAssign(t)
  \/ \E t \in Callers : SmDumpBegin(t)
  \/ \E t \in Callers : SmDumpEnd(t)
  \/ \E t \in Callers : SmRename(t)

\* upload_state.json and the dict agree; each thread has its call to make.
InitMutators ==
  /\ EngineIdle /\ StIdle /\ CdIdle /\ AwIdle /\ MvIdle /\ LdIdle /\ SrIdle /\ GuIdle
  /\ smMem \in { EmptyDict, Put(EmptyDict, "a.mp4", "pending") }
  /\ smDisk = smMem
  /\ smThreads \in { [t \in Callers |-> SmOff(p[t], st[t])] :
                        p \in [Callers -> Paths], st \in [Callers -> SmStates] }

SpecMutators == InitMutators /\ [][NextMutators]_vars

\* ========================================================================
\* Properties
\* ========================================================================

\* ---- C1 (Spec) ----------------------------------------------------------
\* C1: once upload_video has returned full success for a content, a later
\* upload_video on a file holding that content (same process or after a
\* restart) whose fingerprint is computed issues no remote upload call,
\* returns 'already uploaded', and leaves the history, the upload-state map and
\* the quota marker, in memory and on disk, as they were when it was called.
C1_DedupIsIdempotent ==
  (cur # None /\ callDup) =>
     /\ pc = "ret"
     /\ callRemote = 0
     /\ Persisted = callPre
     /\ result \in {"already", "hash_failed"}
     /\ (fileHash # None => result = "already")

\* The second call is on another path than the first, after a restart.
C1_Witness ==
  /\ pc = "ret" /\ callDup /\ result = "already"
  /\ crashes > 0
  /\ memHistory[fileHash].filename # cur

\* ---- C2 (SpecMove) ------------------------------------------------------
\* C2: when safe_move has removed the source, the copy at the destination has
\* the fingerprint of the content the source held.
C2_RemovedOnlyWhenCopyMatches ==
  mvRemoved # None =>
     /\ os_path_exists(mvDir, mvDest)
     /\ Digest(mvDir[mvDest]) = Digest(mvRemoved)

\* ---- C3 (Spec) ----------------------------------------------------------
\* C3: a content whose upload the service accepted and whose history record
\* was lost in a crash is not uploaded a second time after the restart.
C3_NoSecondUploadAfterCrash ==
  orphaned # None => uploads[orphaned] <= 1

C5_NoUploadingAfterRecovery ==
  (recDone /\ pc \in {"recovered", "idle"}) =>
     \A p \in DOMAIN memStates : memStates[p].state # "uploading"

\* ---- C7 (SpecBatch) -----------------------------------------------------
\* C7: no remote upload call is issued while the quota cooldown lasts,
\* whichever entry point runs.
C7_NoRemoteCallInCooldown == ~callInCooldown

\* ---- C9 (SpecBatch) -----------------------------------------------------
\* C9: when the remote upload call signals quota-exceeded, the quota marker
\* holds the current time in memory and on disk; when upload_video has raised
\* QuotaExceededError the file's record is 'failed' with neither retry_count
\* nor next_retry_time, in memory and on disk, after one remote call.
QuotaMarkerIs(t) ==
  /\ "last_quota_hit" \in DOMAIN memQuota /\ memQuota.last_quota_hit = t
  /\ "last_quota_hit" \in DOMAIN diskQuota /\ diskQuota.last_quota_hit = t

C9_QuotaSignal ==
  /\ pc = "quota_hit" => QuotaMarkerIs(now)
  /\ (pc = "ret" /\ result = "quota") =>
       /\ QuotaMarkerIs(now)
       /\ cur \in DOMAIN memStates /\ memStates[cur] = [state |-> "failed"]
       /\ cur \in DOMAIN diskStates /\ diskStates[cur] = [state |-> "failed"]
       /\ callRemote = 1

\* The signal arrives after the clock has advanced, on a file that had failed
\* once before with a retry scheduled.
C9_Witness ==
  /\ pc = "ret" /\ result = "quota"
  /\ now > 0
  /\ cur \in DOMAIN callPre[5]
  /\ "retry_count" \in DOMAIN callPre[5][cur]

\* ---- C10 (SpecBatch) ----------------------------------------------------
\* C10: if the upload of file k of a batch raised QuotaExceededError, then
\* upload_video was called on files 1..k of the batch and on no other, remote
\* calls were issued for files among 1..k only, the record of file k is
\* 'failed' with no next_retry_time, the quota marker is set, and the batch
\* ends reporting the quota hit.
C10_BatchStopsOnQuota ==
  quotaAt # 0 =>
     /\ quotaAt <= Len(batch)
     /\ called = SubSeq(batch, 1, quotaAt)
     /\ remoteIn \subseteq {batch[i] : i \in 1..quotaAt}
     /\ batch[quotaAt] \in DOMAIN memStates
     /\ memStates[batch[quotaAt]].state = "failed"
     /\ "next_retry_time" \notin DOMAIN memStates[batch[quotaAt]]
     /\ diskStates[batch[quotaAt]] = memStates[batch[quotaAt]]
     /\ "last_quota_hit" \in DOMAIN memQuota
     /\ "last_quota_hit" \in DOMAIN diskQuota
     /\ pc \in {"ret", "batch_done"}
     /\ pc = "batch_done" => results.quota_exceeded

\* The first file of a two-file batch hits the quota; the batch has ended.
C10_Witness ==
  /\ pc = "batch_done" /\ quotaAt = 1 /\ Len(batch) = 2
  /\ results.quota_exceeded

AwBeforeRename == {"open", "dump", "sync", "rename"}

LaterTimes == {now} \cup { now + d : d \in TimeJumps }

C11_TerminalFailure ==
  (pc = "ret" /\ result = "failed" /\ streakPath = cur
     /\ streak >= MAX_UPLOAD_RETRY_ATTEMPTS) =>
       /\ cur \in DOMAIN memStates
       /\ memStates[cur].state = "failed"
       /\ get_retry_count(memStates, cur) >= MAX_UPLOAD_RETRY_ATTEMPTS
       /\ "next_retry_time" \notin DOMAIN memStates[cur]
       /\ \A t \in LaterTimes : cur \notin get_failed_uploads_for_retry(memStates, files, t)

\* ---- C12 (SpecRetry) ----------------------------------------------------
\* C12: when upload_video returns from the k-th consecutive non-quota failure
\* of a path, the path's record is 'failed' with retry_count = k; for
\* k < MAX_UPLOAD_RETRY_ATTEMPTS its next_retry_time is the failure time plus
\* min(INITIAL_RETRY_DELAY_SECONDS * 2^(k-1), MAX_RETRY_DELAY_SECONDS), and
\* from k = MAX_UPLOAD_RETRY_ATTEMPTS on it has no next_retry_time.
C12_RetrySchedule ==
  (pc = "ret" /\ result = "failed") =>
     /\ streakPath = cur
     /\ cur \in DOMAIN memStates
     /\ memStates[cur].state = "failed"
     /\ "retry_count" \in DOMAIN memStates[cur]
     /\ IF streak < MAX_UPLOAD_RETRY_ATTEMPTS
        THEN /\ memStates[cur].retry_count = streak
             /\ "next_retry_time" \in DOMAIN memStates[cur]
             /\ memStates[cur].next_retry_time =
                  now + Min(INITIAL_RETRY_DELAY_SECONDS * Pow2(streak - 1),
                            MAX_RETRY_DELAY_SECONDS)
        ELSE /\ memStates[cur].retry_count >= MAX_UPLOAD_RETRY_ATTEMPTS
             /\ "next_retry_time" \notin DOMAIN memStates[cur]

\* ---- C13 (Spec) ---------------------------------------------------------
\* C13: when upload_video returns success, the call issued exactly one remote
\* upload, the history maps the file's digest to the video id the service
\* returned and the file's record is 'completed', both in memory and on disk;
\* and when safe_move succeeded too, the source is gone from its folder and
\* its content is in 'Uploaded'.
C13_FullSuccess ==
  (pc = "ret" /\ result = "success") =>
     /\ callRemote = 1
     /\ videoId # 0
     /\ fileHash = Digest(callContent)
     /\ fileHash \in DOMAIN memHistory /\ memHistory[fileHash].video_id = videoId
     /\ fileHash \in DOMAIN diskHistory /\ diskHistory[fileHash].video_id = videoId
     /\ cur \in DOMAIN memStates /\ memStates[cur] = [state |-> "completed"]
     /\ cur \in DOMAIN diskStates /\ diskStates[cur] = [state |-> "completed"]
     /\ move_success => (files[cur] = None /\ callContent \in uploadedDir)

\* Every step succeeded, on a file that had failed before with a retry scheduled.
C13_Witness ==
  /\ pc = "ret" /\ result = "success" /\ move_success
  /\ cur \in DOMAIN callPre[5]
  /\ callPre[5][cur].state = "failed"

\* ---- C14 (SpecBatch) ----------------------------------------------------
\* C14: once upload_video has returned the playlist failure for a content
\* (the video uploaded, the playlist gone), the remote service accepts no
\* further upload of that content from any later call.
C14_NoUploadAfterPlaylistFailure ==
  pc = "uploaded" => callContent \notin partialDone

\* ---- C17 (SpecBatch) ----------------------------------------------------
\* C17: while upload_files_from_folder runs and when it returns, total_files
\* is the number of files found; every upload_video call made so far is
\* counted in exactly one of success_count, skip_count and fail_count:
\* success_count counts the full successes, skip_count the files found
\* already uploaded, fail_count the others; and quota_exceeded is set exactly
\* when a call raised QuotaExceededError.
CountOf(seq, S) == Cardinality({ i \in 1..Len(seq) : seq[i] \in S })

C17_FolderCounts ==
  (caller = "folder" /\ pc \in {"loop", "batch_done"}) =>
     /\ results.total_files = Len(batch)
     /\ results.success_count = CountOf(outcomes, {"success"})
     /\ results.skip_count = CountOf(outcomes, {"already"})
     /\ results.success_count + results.skip_count + results.fail_count = Len(outcomes)
     /\ results.quota_exceeded = (CountOf(outcomes, {"quota"}) > 0)

\* ---- C20 (SpecFault) ----------------------------------------------------
\* C20: from the moment upload_video is about to issue the remote upload
\* until it writes the outcome, the record of the path on disk is
\* 'uploading' (which is what a crash at any of these moments leaves behind);
\* and a call in which the write of 'uploading' raised issues no remote upload.
InFlight == {"uploading", "uploaded", "quota_hit", "playlist_done", "moved", "recorded"}

C20_UploadingPersistedFirst ==
  /\ pc \in InFlight =>
       /\ cur \in DOMAIN diskStates
       /\ diskStates[cur] = [state |-> "uploading"]
  /\ callRemote > 0 => (pc \in InFlight \/ pc = "ret")
  /\ (pc = "write_failed" \/ (pc = "ret" /\ result = "state_error")) => callRemote = 0

\* A remote upload has been accepted for a path whose previous call ended
\* in a failed write: the file then still lagged behind the memory.
C20_Witness ==
  /\ pc = "uploaded"
  /\ cur \in DOMAIN callPre[5]
  /\ callPre[5][cur].state = "failed"
  /\ (cur \notin DOMAIN callPre[2] \/ callPre[2][cur] # callPre[5][cur])

\* ---- C16 (SpecLoad) -----------------------------------------------------
\* C16: when _load_json_with_validation has returned (the copy, if one was
\* made, not having failed): if the file is absent the result is the empty
\* dict and no backup was created; if the file is present and its text does
\* not parse or its data fails the validator, the result is the empty dict
\* and the sibling '.corrupt.<unixtime>' holds a copy of the file.
LdCorrupt(doc) ==
  \/ json_load(doc) = <<>>
  \/ ~validate_upload_state_schema(json_load(doc)[1])

C16_CorruptFileSetAside ==
  (ldPc = "done" /\ ~ldCopyFailed) =>
     IF ldFile = <<>>
     THEN ldResult = <<LdEmpty>> /\ ldBackups = ldOld
     ELSE LdCorrupt(ldFile[1]) =>
            /\ ldResult = <<LdEmpty>>
            /\ ldTime \in DOMAIN ldBackups
            /\ ldBackups[ldTime] = ldFile[1]

\* ---- C15 (SpecSort) -----------------------------------------------------
\* C15: for a reorder interrupted by quota signals only (any number of them,
\* after any number of committed positions) and resumed from the saved
\* state, the position commits accepted over all the runs together are, in
\* order, those of an uninterrupted run: item sorted[i] to position i for
\* i = 0, 1, ...; and when the last run returns success every position has
\* been committed once and the playlist is in the order of the sorted list.
C15_ResumeEquivalence ==
  (srPc \in {"loop", "report", "done"} /\ ~srHadError /\ ~srCrashed) =>
     /\ Len(srLog) <= Len(srFirst)
     /\ \A i \in 1..Len(srLog) : srLog[i] = <<sort_by_title(srFirst)[i], i - 1>>
     /\ (srPc = "done" /\ srResult[1].success) =>
          /\ Len(srLog) = Len(srFirst)
          /\ srRemote = sort_by_title(srFirst)

\* A run that resumed after the first position had been committed, and after
\* a second interruption, returns success on a playlist of MaxItems items
\* that was not in order.
C15_Witness ==
  /\ srPc = "done" /\ srResult[1].success
  /\ srResumed /\ srRuns = 3 /\ srQuotaHits = 2
  /\ ~srHadError /\ ~srCrashed
  /\ Len(srFirst) = MaxItems
  /\ srFirst # sort_by_title(srFirst)

\* ---- C18 (SpecGui) ------------------------------------------------------
\* C18: at any time at most one thread of the application is inside
\* upload_video between marking a file 'uploading' and the end of the call.
GuUploading == { t \in Threads : guThreads[t].pc \in {"uploading", "uploaded"} }

C18_OneUploadAtATime == Cardinality(GuUploading) <= 1

\* ---- C19 (SpecMutators) -------------------------------------------------
\* C19: when two threads call set_upload_state on two different paths at the
\* same time, neither call raises, and once both have returned
\* upload_state.json holds both updates and equals the dict in memory.
SmDone == \A t \in Callers : smThreads[t].pc \in {"returned", "raised"}

C19_MutatorsThreadSafe ==
  (smThreads["t1"].path # smThreads["t2"].path) =>
     /\ \A t \in Callers : smThreads[t].pc # "raised"
     /\ SmDone =>
          /\ smDisk = smMem
          /\ \A t \in Callers :
               /\ smThreads[t].path \in DOMAIN smDisk
               /\ smDisk[smThreads[t].path] = smThreads[t].state

\* ---- C21 (SpecFault) ----------------------------------------------------
\* C21: when the write of upload_state.json has raised inside
\* set_upload_state, the record map in memory equals the content of the
\* file, and the record of the path has not gone past 'uploading'.
C21_FailedWriteKeepsMemoryInStep ==
  (pc = "write_failed" \/ (pc = "ret" /\ result = "state_error")) =>
     /\ memStates = diskStates
     /\ cur \in DOMAIN memStates => memStates[cur].state \in {"pending", "uploading"}

\* ---- C22 (SpecRetry) ----------------------------------------------------
\* C22: when safe_move has failed after the remote upload succeeded, the
\* source stays where it is, the next step records the digest with the video
\* id in the history, and the step after it sets the record to 'completed'
\* with neither retry_count nor next_retry_time and returns success with the
\* video id; memory and disk agree.
C22_MoveFailureStillSuccess ==
  [][ /\ (pc = "moved" /\ ~move_success) =>
            /\ pc' = "recorded"
            /\ videoId # 0 /\ videoId' = videoId
            /\ fileHash \in DOMAIN memHistory'
            /\ memHistory'[fileHash].video_id = videoId
            /\ diskHistory' = memHistory'
            /\ files' = files /\ files[cur] = callContent /\ callContent # None
      /\ (pc = "recorded" /\ ~move_success) =>
            /\ pc' = "ret" /\ result' = "success"
            /\ videoId # 0 /\ videoId' = videoId
            /\ memHistory' = memHistory
            /\ memHistory[fileHash].video_id = videoId
            /\ memStates'[cur] = [state |-> "completed"]
            /\ diskStates'[cur] = [state |-> "completed"]
            /\ files' = files /\ files[cur] = callContent /\ callContent # None
    ]_vars

\* Success is returned for a file that is still in its folder and that had
\* failed before with a retry scheduled.
C22_Witness ==
  /\ pc = "ret" /\ result = "success" /\ ~move_success
  /\ files[cur] = callContent
  /\ callContent \notin uploadedDir
  /\ cur \in DOMAIN callPre[5]
  /\ "next_retry_time" \in DOMAIN callPre[5][cur]

\* ---- C23 (Spec) ---------------------------------------------------------
\* C23: an upload_video call on a path that is not a file, or whose file is
\* over the size limit ("big" is the content over MAX_FILE_SIZE_BYTES), has
\* returned a failure, has issued no remote call, has computed no hash, and
\* has left the upload-state map, the history and the quota marker, in
\* memory and on disk, as they were when it was called.
C23_ValidationTouchesNothing ==
  (cur # None /\ callContent \in {None, "big"}) =>
     /\ pc = "ret"
     /\ result = (IF callContent = None THEN "not_found" ELSE "too_large")
     /\ callRemote = 0 /\ videoId = 0 /\ fileHash = None
     /\ Persisted = callPre
     /\ files[cur] = callContent

\* The path was uploaded and moved away earlier; the other file has failed
\* with a retry scheduled; the call finds no file and changes nothing.
C23_Witness ==
  /\ pc = "ret" /\ result = "not_found"
  /\ cur \in DOMAIN memStates /\ memStates[cur].state = "completed"
  /\ DOMAIN memHistory # {}
  /\ \E p \in DOMAIN memStates : "next_retry_time" \in DOMAIN memStates[p]

\* ---- C24 (SpecRetry) ----------------------------------------------------
\* C24: at the current time, get_failed_uploads_for_retry returns exactly the
\* paths whose record is 'failed', has a next_retry_time that is not after
\* now, has a retry count under MAX_UPLOAD_RETRY_ATTEMPTS, and whose file
\* exists; a record that was marked 'failed' without a next_retry_time (quota
\* exceeded, playlist gone) is not returned.
C24_ReadyForRetry ==
  get_failed_uploads_for_retry(memStates, files, now) =
    { p \in DOMAIN memStates :
        /\ memStates[p].state = "failed"
        /\ "next_retry_time" \in DOMAIN memStates[p]
        /\ memStates[p].next_retry_time <= now
        /\ get_retry_count(memStates, p) < MAX_UPLOAD_RETRY_ATTEMPTS
        /\ files[p] # None }

\* ---- C25 (SpecMove) -----------------------------------------------------
\* C25: safe_move picks the suffixed name when the destination name is
\* taken; the copy changes no file that is in the destination folder when it
\* is made, and the steps after it change no file but the copy: every file
\* the folder held before the call keeps its name and its content.
C25_ExistingFilesKept ==
  [][ /\ (mvPc = "start" /\ os_path_exists(mvDir, MvName)) => mvDest' = MvSuffixed
      /\ mvPc \in {"start", "copy"} =>
           \A n \in DOMAIN mvDir : os_path_exists(mvDir', n) /\ mvDir'[n] = mvDir[n]
      /\ mvPc \in {"copied", "delete"} =>
           \A n \in (DOMAIN mvDir) \ {mvDest} :
              os_path_exists(mvDir', n) /\ mvDir'[n] = mvDir[n]
    ]_vars

\* ---- C26 (SpecMoveFair) -------------------------------------------------
\* C26: the delete loop of safe_move runs only after a verified copy, makes
\* at most MAX_FILE_OPERATION_RETRIES attempts and has slept
\* min(INITIAL_FILE_OPERATION_DELAY * 2^n, MAX_FILE_OPERATION_DELAY) before
\* attempt n = 0, 1, ...; when every attempt has failed the call returns
\* False with the source and the copy at the destination both there; and the
\* loop always ends.
RECURSIVE SleptBefore(_)
SleptBefore(attempts) ==
  IF attempts = 0 THEN 0
  ELSE SleptBefore(attempts - 1)
       + Min(INITIAL_FILE_OPERATION_DELAY * Pow2(attempts - 1), MAX_FILE_OPERATION_DELAY)

\* os.remove calls made so far: the failed ones, and the one that succeeded.
MvAttemptsMade == mvAttempt + (IF mvRemoved # None THEN 1 ELSE 0)

MvDeleteLoopBounded ==
  /\ MvAttemptsMade <= MAX_FILE_OPERATION_RETRIES
  /\ mvSlept = SleptBefore(MvAttemptsMade)
  /\ MvAttemptsMade > 0 => mvPc \in {"delete", "done"}
  /\ (mvPc = "delete") => mvAttempt < MAX_FILE_OPERATION_RETRIES
  /\ (mvPc = "done" /\ mvAttempt = MAX_FILE_OPERATION_RETRIES) =>
       /\ mvResult = <<FALSE>>
       /\ mvSrc # None /\ mvRemoved = None
       /\ os_path_exists(mvDir, mvDest)
       /\ mvDir[mvDest] # "junk"

C27_FailedCopyLeavesNothing ==
  [][ /\ (mvPc \in {"copy", "copied"} /\ mvPc' # mvPc) => mvSrc' = mvSrc
      /\ (mvPc \in {"copy", "copied"} /\ mvPc' = "done" /\ mvSrc # None) =>
           ~os_path_exists(mvDir', mvDest)
    ]_vars

\* ---- C28 (SpecGui) ------------------------------------------------------
\* C28: a digest enters the upload history only with the video id that a
\* remote upload call for the content of that digest has returned; and an
\* entry of the history, once written, is neither changed nor removed.
C28_HistoryWrittenOnce ==
  [][ /\ DOMAIN guHistory \subseteq DOMAIN guHistory'
      /\ \A h \in DOMAIN guHistory' :
           IF h \in DOMAIN guHistory
           THEN guHistory'[h].video_id = guHistory[h].video_id
           ELSE \E t \in Threads :
                  /\ guThreads[t].pc = "uploaded"
                  /\ Digest(guThreads[t].content) = h
                  /\ guThreads[t].video_id # 0
                  /\ guHistory'[h].video_id = guThreads[t].video_id
    ]_vars

\* ---- C29 (SpecSort) -----------------------------------------------------
\* C29: while sort_playlist_alphabetically is in its commit loop,
\* playlist_sort_state.json holds the state of this reorder: the playlist id,
\* the sorted items and, as last_position, the index of the last position
\* commit that succeeded (-1 before the first), which is what a crash at
\* that moment leaves for the next run to resume from.
C29_CheckpointFollowsCommits ==
  srPc = "loop" =>
     /\ DOMAIN srDisk # {}
     /\ srDisk.playlist_id = Playlist
     /\ srDisk.sorted_items = srSorted
     /\ srDisk.last_position = srLast

\* ---- C30 (SpecSort) -----------------------------------------------------
\* C30: when a position commit has signalled quota-exceeded, the quota hit is
\* recorded; playlist_sort_state, in memory and on disk, holds the playlist
\* id, the sorted items and as last_position the index of the last commit of
\* the reorder that succeeded (-1 if none did); no further commit is issued;
\* and the call returns success = False with, as number of videos not
\* sorted, the number of items whose position has not been committed.
SrCommitted == { srLog[i][1] : i \in 1..Len(srLog) }

SrLastCommitted == IF srLog = <<>> THEN -1 ELSE srLog[Len(srLog)][2]

C30_QuotaCheckpoint ==
  (srQuota /\ srPc \in {"report", "done"}) =>
     /\ srQuotaHits > 0
     /\ srMem = [playlist_id |-> Playlist, sorted_items |-> srSorted,
                 last_position |-> SrLastCommitted]
     /\ srDisk = srMem
     /\ srFailed = Len(srSorted) - Cardinality(SrCommitted)
     /\ srPc = "done" => (~srResult[1].success /\ srResult[1].message = "quota")

\* ---- C31 (SpecSortTwo) --------------------------------------------------
\* The call that starts: srPlaylist' is its playlist_id.
SrStarts == srPc = "idle" /\ srPc' # "idle"

\* The saved state is of the playlist the starting call is for.
SrSavedForCall == DOMAIN srMem # {} /\ srMem.playlist_id = srPlaylist'

\* C31: a call that finds a saved state of its own playlist takes the stored
\* order without fetching or sorting and starts at last_position + 1; every
\* update it sends is for a position after last_position, in increasing
\* order, of the item the stored order has there.  A saved state of another
\* playlist is ignored: the items are fetched and sorted and the updates
\* start at position 0.
C31_ResumeSkipsFetchAndSort ==
  [][ /\ (SrStarts /\ SrSavedForCall) =>
            /\ srResumed' /\ srPc' = "loop"
            /\ srSorted' = srMem.sorted_items
            /\ srPos' = srMem.last_position + 1
            /\ srFirst' = srFirst /\ srLog' = srLog
      /\ (SrStarts /\ ~SrSavedForCall) =>
            /\ ~srResumed'
            /\ srFirst' = PlaylistItems(srPlaylist')
            /\ srPc' = "loop" => /\ srSorted' = sort_by_title(PlaylistItems(srPlaylist'))
                                 /\ srPos' = 0
      /\ (srPc = "loop" /\ srResumed /\ srPc' # "idle") =>
            /\ srPos > srMem.last_position
            /\ srPos' >= srPos
            /\ srLog' # srLog =>
                 /\ srLog' = Append(srLog, <<srMem.sorted_items[srPos + 1], srPos>>)
                 /\ srPos' = srPos + 1
    ]_vars

\* A resumed call on the second playlist has sent the update of position 1,
\* the saved state saying that position 0 was the last one done.
C31_Witness ==
  /\ srResumed /\ srPlaylist = OtherPlaylist /\ srPc = "loop"
  /\ DOMAIN srMem # {} /\ srMem.playlist_id = OtherPlaylist /\ srMem.last_position = 0
  /\ srPos = 2 /\ srLog # <<>> /\ srLog[Len(srLog)][2] = 1

\* A call on one playlist runs its loop while the saved state is of the other.
C31_WitnessOtherPlaylist ==
  /\ srPc = "loop" /\ ~srResumed /\ srPos > 0
  /\ DOMAIN srMem # {} /\ srMem.playlist_id # srPlaylist

\* ---- C32 (SpecSort) -----------------------------------------------------
\* An update of the running call fails with a non-quota error.
SrUpdateFails == srErrors' = srErrors + 1

\* The error is counted and the loop goes on with the next position;
\* nothing of the quota handling happens.
SrErrorIsSkipped ==
  SrUpdateFails =>
     /\ srFailed' = srFailed + 1
     /\ srPc' = "loop" /\ srPos' = srPos + 1 /\ srSorted' = srSorted
     /\ srQuota' = srQuota /\ srQuotaHits' = srQuotaHits
     /\ srMem' = srMem /\ srDisk' = srDisk

\* After an error only the end of the list or a quota signal ends the loop.
SrLaterItemsTried ==
  (srErrors > 0 /\ ~srQuota) =>
     /\ srFailed = srErrors
     /\ srPc \in {"report", "done"} => srPos = Len(srSorted)

CallInFlight ==
  pc \in {"checked", "uploading", "quota_hit", "uploaded", "playlist_done", "moved",
          "recorded", "ret"}

\* The files of the batch that no call was started for.
RemainingFiles == { batch[i] : i \in (Len(called) + 1)..Len(batch) }

StopStep ==
  should_stop =>
     /\ pc = "loop" => pc' # "checked"
     /\ (called' # called /\ called' # <<>>) => pc = "checked"

\* The calls started since the flag was set: at most the one whose check had
\* passed.  When the loop has ended each call has returned, the record of the
\* last file is final, and the remaining files and their records are as they
\* were when the flag was set.
StopState ==
  should_stop =>
     /\ Len(called) <= stopSnap[1].started + (IF stopSnap[1].checked THEN 1 ELSE 0)
     /\ pc = "batch_done" =>
          /\ Len(outcomes) = Len(called)
          /\ called # <<>> =>
               LET p == called[Len(called)]
               IN  p \in DOMAIN memStates => memStates[p].state \in {"completed", "failed"}
          /\ \A p \in RemainingFiles :
               /\ files[p] = stopSnap[1].files[p]
               /\ p \in DOMAIN memStates <=> p \in DOMAIN stopSnap[1].states
               /\ p \in DOMAIN memStates => memStates[p] = stopSnap[1].states[p]

InCooldown == is_in_cooldown(memQuota, now)

\* The marker is written by a quota signal only, with the time of the
\* signal; the worker enters a folder check only outside the cooldown and
\* with the flag not set, and leaves its cooldown wait only for the head of
\* its loop.
WorkerStep ==
  /\ memQuota' # memQuota =>
       /\ wkHits' = wkHits + 1
       /\ memQuota' = record_quota_hit(memQuota, now) /\ diskQuota' = memQuota'
  /\ (wkPc # "check" /\ wkPc' = "check") =>
       wkPc = "top" /\ ~InCooldown /\ ~should_stop
  /\ wkPc = "cooldown_wait" => wkPc' \in {"cooldown_wait", "top"}
  /\ (wkPc = "cooldown_wait" /\ wkPc' = "top") => (now >= wkEnd \/ should_stop)

\* The worker waits in cooldown for the end the marker gave when it looked.
WorkerWaitsForMarker ==
  wkPc = "cooldown_wait" =>
     /\ "last_quota_hit" \in DOMAIN memQuota
     /\ wkEnd <= cooldown_end(memQuota)
     /\ wkHits > 0

\* C34: the quota marker is written by quota signals only, so the cooldown
\* ends by the clock alone: when no further signal comes, is_in_cooldown()
\* turns false at the cooldown end, and a worker that is not stopped leaves
\* its cooldown wait and performs a folder check; from the cooldown wait it
\* goes back to the head of its loop only, and it enters a folder check only
\* when is_in_cooldown() is false.
C34_CooldownEndsByTheClock ==
  /\ [][WorkerStep]_vars
  /\ []WorkerWaitsForMarker
  /\ InCooldown ~> (~InCooldown \/ should_stop)
  /\ (wkPc = "cooldown_wait") ~> (wkPc = "check" \/ should_stop)

\* The worker has sat out the cooldown of the marker that is still recorded
\* and is about to check the folder.
C34_Witness ==
  /\ wkPc = "check" /\ ~should_stop
  /\ "last_quota_hit" \in DOMAIN memQuota
  /\ wkEnd = cooldown_end(memQuota) /\ now >= wkEnd

\* ---- C35 (SpecEstimate) -------------------------------------------------
\* ceil(n / k): the least q with q * k >= n
Ceil(n, k) == CHOOSE q \in 0..n : q * k >= n /\ \A r \in 0..n : r * k >= n => q <= r

\* C35: estimate_sort_quota_cost(n) is ceil(n / 50) list calls plus n
\* position updates, in quota units, and computing it changes nothing that
\* is persisted, at the service or in the records.
C35_EstimateFormula ==
  /\ esCost # <<>> =>
       esCost[1] = Ceil(esVideos, 50) * QUOTA_COST_PLAYLIST_LIST
                   + esVideos * QUOTA_COST_PLAYLIST_UPDATE
  /\ Persisted = <<EmptyDict, EmptyDict, EmptyDict, EmptyDict, EmptyDict, EmptyDict>>
  /\ srMem = EmptyDict /\ srDisk = EmptyDict /\ srRemote = <<>> /\ srQuotaHits = 0

\* The estimate for 51 items: two pages and 51 updates.
C35_Witness == esVideos = 51 /\ esCost = <<2 * QUOTA_COST_PLAYLIST_LIST + 51 * QUOTA_COST_PLAYLIST_UPDATE>>

\* ---- C36 (SpecSort) -----------------------------------------------------
\* The position updates the service has accepted since the items were fetched.
SrAccepted == { srLog[k] : k \in 1..Len(srLog) }

\* C36: when sort_playlist_alphabetically returns success, the service has
\* accepted the update of every position of the ordered list, in this call
\* or in the calls the saved state came from.
C36_SuccessMeansAllCommitted ==
  (srPc = "done" /\ srResult[1].success) =>
     \A i \in 1..Len(srSorted) : <<srSorted[i], i - 1>> \in SrAccepted

\* ---- C37 (SpecSortTwo) --------------------------------------------------
\* C37: a call of sort_playlist_alphabetically for one playlist leaves a
\* saved sort state that is of another playlist as it is, in memory and in
\* playlist_sort_state.json, however the call ends.
C37_OtherCheckpointKept ==
  [][ (srPlaylist # None /\ DOMAIN srMem # {} /\ srMem.playlist_id # srPlaylist) =>
         srMem' = srMem /\ srDisk' = srDisk ]_vars

\* ---- C38 (SpecSort) -----------------------------------------------------
\* Where the item is in the list.
IndexIn(list, item) == CHOOSE i \in 1..Len(list) : list[i] = item

\* A call that fetched the items, met no error and has returned.
SrCleanRun ==
  /\ srPc = "done" /\ srResult[1].success
  /\ ~srResumed /\ ~srHadError /\ ~srCrashed /\ srTried = Len(srSorted)

\* C38: with no remote error the ordered list is a permutation of the
\* fetched items in non-decreasing order of lower-cased title, items of equal
\* lower-cased title in their fetched order, and after the updates of the
\* positions 0..n-1 in this order the playlist at the service is that list.
C38_SortedStableAndApplied ==
  SrCleanRun =>
     /\ Len(srSorted) = Len(srFirst)
     /\ { srSorted[i] : i \in 1..Len(srSorted) } = { srFirst[i] : i \in 1..Len(srFirst) }
     /\ \A i, j \in 1..Len(srSorted) :
          i < j =>
            /\ title_le(lower(Title(srSorted[i])), lower(Title(srSorted[j])))
            /\ lower(Title(srSorted[i])) = lower(Title(srSorted[j])) =>
                 IndexIn(srFirst, srSorted[i]) < IndexIn(srFirst, srSorted[j])
     /\ srLog = [i \in 1..Len(srSorted) |-> <<srSorted[i], i - 1>>]
     /\ srRemote = srSorted

\* Three items fetched as <<3, 2, 1>>: titles 'b', 'A', 'a'; the sort gives
\* 'A', 'a', 'b' and the playlist ends in that order.
C38_Witness ==
  /\ SrCleanRun /\ srFirst = <<3, 2, 1>> /\ srSorted = <<2, 1, 3>> /\ srRemote = <<2, 1, 3>>

\* ---- C39 (SpecGui, Spec) ------------------------------------------------
\* C39: a record in state 'completed' has its upload in the history: the
\* entry of the file's digest names the path and the video id of that upload.
C39_CompletedHasHistory ==
  \A p \in DOMAIN guRecords :
     guRecords[p] = "completed" =>
        \E h \in DOMAIN guHistory : guHistory[h].filename = p

\* The same of one thread with crashes and restarts (Spec): in memory, on
\* disk, and the entry is there when the record is about to be written.
C39_HistoryBeforeCompleted ==
  /\ \A p \in DOMAIN memStates :
        memStates[p].state = "completed" =>
           \E h \in DOMAIN memHistory : memHistory[h].filename = p
  /\ \A p \in DOMAIN diskStates :
        diskStates[p].state = "completed" =>
           \E h \in DOMAIN diskHistory : diskHistory[h].filename = p
  /\ pc = "recorded" =>
        /\ fileHash = Digest(callContent)
        /\ fileHash \in DOMAIN diskHistory
        /\ diskHistory[fileHash] = [filename |-> cur, video_id |-> videoId]

====
